---- MODULE Spec2Model ----
(***************************************************************************)
(* Order / payment lifecycle of the alia marketplace backend.              *)
(*                                                                         *)
(* Collections of the MongoDB database are sequences in insertion order    *)
(* (the natural order find_one scans): orders, payments, refunds; the      *)
(* product catalog is a function from product id to stock.  Every request  *)
(* handler is one action that runs from its first read to its last write   *)
(* and leaves its response in resp; Reply returns it to the caller before  *)
(* the next request is taken.  Time is a clock counted in payment-timeout  *)
(* periods (10 minutes).                                                   *)
(*                                                                         *)
(* Spec          the whole backend, one payment per run                    *)
(* SpecInitiate  the buyer's payment endpoints, several payments per order *)
(* SpecValidate  calls of the pure function validate_status_transition     *)
(* SpecFees              calls of calculate_fees                           *)
(* SpecPhone             calls of detect_provider, then initiations        *)
(* SpecNextStatuses      calls of get_valid_next_statuses                  *)
(* SpecConcurrent        payment requests interleaved at awaits            *)
(* SpecConcurrentOrders  status updates interleaved at awaits              *)
(* SpecRetry             a failed payment and the retry                    *)
(* SpecPoll              status polls, step by step                        *)
(* SpecPollFair          SpecPoll under fairness                           *)
(* SpecRestore           cancellations with failing stock restores         *)
(* SpecCreate            order creations interleaved at awaits             *)
(* SpecStale             one status poll beside the other payment writers  *)
(***************************************************************************)
EXTENDS Integers, Sequences, FiniteSets, TLC

\* ---------------------------------------------------------------- bounds
MaxOrders == 1
MaxPayments == 1
MaxPaymentsPerOrder == 3
MaxRefunds == 1
MaxHistory == 3
MaxTime == 2
InitialStock == 2
MaxRequests == 2

\* ------------------------------------------------------ program constants
\* Payment.expires_at = initiated_at + 10 minutes: one clock period.
TimeoutTicks == 1
\* Optional fields that are None in the program.
NoTxn == 0
NoTime == 0 - 1
NoId == 0

\* --------------------------------------------------------------- identity
Buyers == {"b1", "b2"}
\* the buyer who places orders; b2 only ever acts on orders of others
OrderingBuyers == {"b1"}
Merchants == {"m1", "m2"}
Admins == {"a1"}
Users == Buyers \cup Merchants \cup Admins

\* users.role as stored at registration
RoleOf(u) == IF u \in Buyers THEN "buyer" ELSE IF u \in Merchants THEN "merchant" ELSE "admin"

\* db.merchants: one profile per merchant-role user, keyed by user_id
MerchantProfiles == {[user_id |-> m] : m \in Merchants}

\* OrderService.get_merchant_by_user_id: the set of matching profiles (empty = None)
get_merchant_by_user_id(user_id) == {m \in MerchantProfiles : m.user_id = user_id}

\* ---------------------------------------------------------------- catalog
ProductIds == {"p1", "p2"}
ProductMerchant == [p \in ProductIds |-> "m1"]
ProductPrice == [p \in ProductIds |-> IF p = "p1" THEN 1 ELSE 2]

\* line-item lists a buyer may submit (product_id, quantity > 0)
OrderItemChoices ==
  { << [product_id |-> "p1", quantity |-> 2],
       [product_id |-> "p2", quantity |-> 1],
       [product_id |-> "p2", quantity |-> 1] >>,
    << [product_id |-> "p1", quantity |-> 3] >> }

\* ------------------------------------------------------------ BSON values
\* An order's _id is an ObjectId; ids carried in requests and in Payment
\* records are strings.  A filter matches only a value of the same type.
ObjectId(s) == << "oid", s >>
StrId(s) == << "str", s >>

\* ------------------------------------------------------------- vocabulary
OrderStatuses == {"pending", "confirmed", "shipped", "delivered", "cancelled"}
PaymentStatuses == {"pending", "processing", "completed", "failed", "cancelled", "refunded", "expired"}
Providers == {"orange_money", "mtn_money", "moov_money"}
Modes == {"SIMULATION", "SANDBOX", "PRODUCTION"}

VARIABLES
  mode,       \* PAYMENT_MODE, fixed at process start
  now,        \* datetime.utcnow(), in timeout periods
  stock,      \* db.products: product id -> stock
  orders,     \* db.orders
  payments,   \* db.payments
  refunds,    \* db.refunds
  tasks,      \* asyncio tasks scheduled by the simulation provider
  resp,       \* the response of the request being answered (NoResp between requests)
  paycap,     \* how many payments the run admits
  call,       \* a call of a pure function: its name, arguments, and result once done
  inflight    \* the requests served concurrently: where each coroutine is suspended

vars == << mode, now, stock, orders, payments, refunds, tasks, resp, paycap, call, inflight >>

\* ------------------------------------------------------------ order rules
\* a table that lets a delivered order be cancelled
STATUS_TRANSITIONS_DeliveredCancellable ==
  [ pending   |-> <<"confirmed", "cancelled">>,
    confirmed |-> <<"shipped", "cancelled">>,
    shipped   |-> <<"delivered">>,
    delivered |-> <<"cancelled">>,
    cancelled |-> << >> ]

\* OrderService.STATUS_TRANSITIONS
STATUS_TRANSITIONS ==
  [ pending   |-> <<"confirmed", "cancelled">>,
    confirmed |-> <<"shipped", "cancelled">>,
    shipped   |-> <<"delivered">>,
    delivered |-> << >>,
    cancelled |-> << >> ]

SeqRange(s) == {s[i] : i \in 1..Len(s)}

\* a validation with one reason for every rejection
validate_status_transition_OneReason(current_status, new_status) ==
  IF current_status \notin DOMAIN STATUS_TRANSITIONS
    THEN [ok |-> FALSE, msg |-> "invalid_current_status"]
  ELSE IF new_status \notin SeqRange(STATUS_TRANSITIONS[current_status])
    THEN [ok |-> FALSE, msg |-> "cannot_transition"]
  ELSE [ok |-> TRUE, msg |-> "none"]

\* OrderService.validate_status_transition: (is_valid, reason kind)
validate_status_transition(current_status, new_status) ==
  IF current_status \notin DOMAIN STATUS_TRANSITIONS
    THEN [ok |-> FALSE, msg |-> "invalid_current_status"]
  ELSE IF new_status \notin SeqRange(STATUS_TRANSITIONS[current_status])
    THEN IF STATUS_TRANSITIONS[current_status] = << >>
           THEN [ok |-> FALSE, msg |-> "final_state"]
           ELSE [ok |-> FALSE, msg |-> "cannot_transition"]
  ELSE [ok |-> TRUE, msg |-> "none"]

\* an ownership check that only looks for a merchant profile
OwnsAsMerchant_AnyProfile(order, user_id) == get_merchant_by_user_id(user_id) # {}

\* merchant profile of user_id exists and order.merchant_id is its user_id
OwnsAsMerchant(order, user_id) ==
  \E m \in get_merchant_by_user_id(user_id) : order.merchant_id = m.user_id

\* OrderService.can_user_change_status: (can_change, reason kind)
can_user_change_status(order, new_status, user_id, user_role) ==
  LET v == validate_status_transition(order.status, new_status) IN
  IF ~v.ok THEN v
  ELSE IF new_status \in {"confirmed", "shipped", "delivered"}
    THEN IF user_role # "merchant"
           THEN [ok |-> FALSE, msg |-> "only_merchants"]
         ELSE IF ~OwnsAsMerchant(order, user_id)
           THEN [ok |-> FALSE, msg |-> "not_your_shop"]
         ELSE [ok |-> TRUE, msg |-> "none"]
  ELSE IF new_status = "cancelled"
    THEN IF user_role = "buyer"
           THEN IF order.status # "pending"
                  THEN [ok |-> FALSE, msg |-> "customers_only_pending"]
                ELSE IF order.user_id # user_id
                  THEN [ok |-> FALSE, msg |-> "not_your_order"]
                ELSE [ok |-> TRUE, msg |-> "none"]
         ELSE IF user_role = "merchant"
           THEN IF order.status \notin {"pending", "confirmed"}
                  THEN [ok |-> FALSE, msg |-> "merchants_only_pending_confirmed"]
                ELSE IF ~OwnsAsMerchant(order, user_id)
                  THEN [ok |-> FALSE, msg |-> "not_your_shop"]
                ELSE [ok |-> TRUE, msg |-> "none"]
         ELSE [ok |-> FALSE, msg |-> "invalid_role"]
  ELSE [ok |-> TRUE, msg |-> "none"]

\* a projection that offers the buyer every cancellation the table holds
get_valid_next_statuses_BuyerAnyCancel(current_status, user_role) ==
  IF current_status \notin DOMAIN STATUS_TRANSITIONS THEN << >>
  ELSE LET valid_statuses == STATUS_TRANSITIONS[current_status] IN
       IF user_role = "buyer"
         THEN IF "cancelled" \in SeqRange(valid_statuses)
                THEN <<"cancelled">>
                ELSE << >>
       ELSE IF user_role = "merchant" THEN valid_statuses
       ELSE << >>

\* OrderService.get_valid_next_statuses
get_valid_next_statuses(current_status, user_role) ==
  IF current_status \notin DOMAIN STATUS_TRANSITIONS THEN << >>
  ELSE LET valid_statuses == STATUS_TRANSITIONS[current_status] IN
       IF user_role = "buyer"
         THEN IF current_status = "pending" /\ "cancelled" \in SeqRange(valid_statuses)
                THEN <<"cancelled">>
                ELSE << >>
       ELSE IF user_role = "merchant" THEN valid_statuses
       ELSE << >>

\* ------------------------------------------------------------------ state
\* resp: the operation, whether it succeeded, its reason or resulting status,
\* and the payment_id / refund_id the response carries (NoId when it has none)
NoResp == [op |-> "none", ok |-> TRUE, msg |-> "none", ref |-> NoId]

Resp(op, ok, msg, ref) == [op |-> op, ok |-> ok, msg |-> msg, ref |-> ref]

\* no pure call is under way
NoCall == [fn |-> "none", args |-> << >>, done |-> FALSE, result |-> << >>]

\* the coroutines the event loop interleaves at their awaits
Requests == 1..MaxRequests

\* a coroutine that serves no request: op is the handler, pc the await it is
\* suspended at, args the request, locals what the handler has read so far,
\* doc the id of the document it inserted, result its response
IdleRequest ==
  [op |-> "none", pc |-> "idle", args |-> << >>, locals |-> << >>, doc |-> NoId, result |-> NoResp]

\* the database after start-up: a stocked catalog, no order, no payment, no
\* request in flight
EmptyDatabase ==
  /\ inflight = [r \in Requests |-> IdleRequest]
  /\ now = 0
  /\ stock = [p \in ProductIds |-> InitialStock]
  /\ orders = << >>
  /\ payments = << >>
  /\ refunds = << >>
  /\ tasks = {}
  /\ resp = NoResp

InitWith(cap) ==
  /\ mode \in Modes
  /\ EmptyDatabase
  /\ paycap = cap
  /\ call = NoCall

Init == InitWith(MaxPayments)

\* the clock advances between requests.  It is counted from the first payment:
\* no earlier instant is recorded anywhere in the state.
Tick ==
  /\ resp = NoResp
  /\ payments # << >>
  /\ now < MaxTime
  /\ now' = now + 1
  /\ UNCHANGED << mode, paycap, inflight, call, stock, orders, payments, refunds, tasks, resp >>

\* the response is returned to the caller; the server takes the next request
Reply ==
  /\ resp # NoResp
  /\ resp' = NoResp
  /\ UNCHANGED << mode, paycap, inflight, call, now, stock, orders, payments, refunds, tasks >>

\* ------------------------------------------------------------ collections
Idx(s) == 1..Len(s)

\* find_one: the first document, in natural order, that satisfies the filter
\* (0 when there is none)
FirstIdx(s, Match(_)) ==
  IF \E i \in Idx(s) : Match(s[i])
    THEN CHOOSE i \in Idx(s) : Match(s[i]) /\ \A j \in 1..(i - 1) : ~Match(s[j])
    ELSE 0

\* db.orders.find_one / update_one({"_id": key}): position of the order whose
\* _id equals the key, type included
OrderAt(key) == FirstIdx(orders, LAMBDA o : o._id = key)

\* db.payments.find_one({"payment_id": payment_id})
PaymentAt(payment_id) == FirstIdx(payments, LAMBDA p : p.payment_id = payment_id)

RECURSIVE SumSeq(_)
SumSeq(s) == IF s = << >> THEN 0 ELSE Head(s) + SumSeq(Tail(s))

\* the $inc updates of a list of line items, applied one after the other
RECURSIVE IncStock(_, _, _)
IncStock(st, items, sign) ==
  IF items = << >> THEN st
  ELSE IncStock([st EXCEPT ![Head(items).product_id] = @ + sign * Head(items).quantity],
                Tail(items), sign)

\* ----------------------------------------------------------- create_order
\* POST /orders: every item is checked against the stock read for that item,
\* the order is inserted as pending and the stock of every item decremented.
create_order(user_id, items) ==
  /\ resp = NoResp
  /\ Len(orders) < MaxOrders
  /\ LET shortItems == {i \in Idx(items) : stock[items[i].product_id] < items[i].quantity}
         total == SumSeq([i \in Idx(items) |->
                            ProductPrice[items[i].product_id] * items[i].quantity])
         merchant_id == ProductMerchant[items[1].product_id]
         oid == Len(orders) + 1
         order == [ _id |-> ObjectId(oid),
                    user_id |-> user_id,
                    merchant_id |-> merchant_id,
                    products |-> items,
                    total_amount |-> total,
                    status |-> "pending",
                    payment_status |-> "unset",
                    status_history |-> << [status |-> "pending", changed_by |-> "system"] >>,
                    tracking_number |-> "none",
                    shipped_at |-> FALSE,
                    delivered_at |-> FALSE,
                    cancelled_by |-> "none" ]
     IN IF shortItems # {}
          THEN /\ resp' = Resp("create_order", FALSE, "insufficient_stock", NoId)
               /\ UNCHANGED << orders, stock >>
          ELSE /\ orders' = Append(orders, order)
               /\ stock' = IncStock(stock, items, 0 - 1)
               /\ resp' = Resp("create_order", TRUE, "created", NoId)
  /\ UNCHANGED << mode, paycap, inflight, call, now, payments, refunds, tasks >>

\* ---------------------------------------------------------- phone numbers
\* A phone number is the sequence of its characters.
Digits == {"0", "1", "2", "3", "4", "5", "6", "7", "8", "9"}

StartsWith(s, pre) == Len(s) >= Len(pre) /\ SubSeq(s, 1, Len(pre)) = pre
EndsWith(s, suf) == Len(s) >= Len(suf) /\ SubSeq(s, Len(s) - Len(suf) + 1, Len(s)) = suf

\* a validation that does not count the digits
validate_ivorian_phone_AnyLength(phone_number) ==
  LET stripped == SelectSeq(phone_number, LAMBDA c : c \notin {" ", "-", "(", ")"})
      plus == StartsWith(stripped, <<"+", "2", "2", "5">>)
      cleaned == IF plus THEN Tail(stripped) ELSE stripped
  IN IF ~plus /\ ~StartsWith(stripped, <<"2", "2", "5">>)
       THEN [ok |-> FALSE, cleaned |-> << >>]
     ELSE IF Len(cleaned) < 7
       THEN [ok |-> FALSE, cleaned |-> << >>]
     ELSE IF \E i \in 1..Len(cleaned) : cleaned[i] \notin Digits
       THEN [ok |-> FALSE, cleaned |-> << >>]
     ELSE IF cleaned[4] # "0" \/ cleaned[5] \notin Digits
       THEN [ok |-> FALSE, cleaned |-> << >>]
     ELSE [ok |-> TRUE, cleaned |-> <<"+">> \o cleaned]

\* validate_ivorian_phone: (is_valid, cleaned_number)
validate_ivorian_phone(phone_number) ==
  LET stripped == SelectSeq(phone_number, LAMBDA c : c \notin {" ", "-", "(", ")"})
      plus == StartsWith(stripped, <<"+", "2", "2", "5">>)
      cleaned == IF plus THEN Tail(stripped) ELSE stripped
  IN IF ~plus /\ ~StartsWith(stripped, <<"2", "2", "5">>)
       THEN [ok |-> FALSE, cleaned |-> << >>]
     ELSE IF Len(cleaned) # 13
       THEN [ok |-> FALSE, cleaned |-> << >>]
     ELSE IF \E i \in 1..Len(cleaned) : cleaned[i] \notin Digits
       THEN [ok |-> FALSE, cleaned |-> << >>]
     ELSE IF cleaned[4] # "0" \/ cleaned[5] \notin Digits
       THEN [ok |-> FALSE, cleaned |-> << >>]
     ELSE [ok |-> TRUE, cleaned |-> <<"+">> \o cleaned]

orange_prefixes ==
  { <<"0", "7", "0", "7">>, <<"0", "5", "0", "5">>, <<"0", "1", "0", "4">>, <<"0", "1", "0", "5">>,
    <<"0", "1", "0", "6">>, <<"0", "1", "0", "7">>, <<"0", "1", "0", "8">>, <<"0", "1", "0", "9">>,
    <<"0", "1", "4", "0">>, <<"0", "1", "4", "1">>, <<"0", "1", "4", "2">>, <<"0", "1", "4", "3">>,
    <<"0", "1", "4", "4">>, <<"0", "1", "4", "5">>, <<"0", "1", "4", "6">>, <<"0", "1", "4", "7">>,
    <<"0", "1", "4", "8">>, <<"0", "1", "4", "9">>, <<"0", "1", "5", "0">>, <<"0", "1", "5", "1">>,
    <<"0", "1", "5", "2">>, <<"0", "1", "5", "3">>, <<"0", "1", "5", "4">>, <<"0", "1", "5", "5">>,
    <<"0", "1", "5", "6">>, <<"0", "1", "5", "7">>, <<"0", "1", "5", "8">>, <<"0", "1", "5", "9">> }

mtn_prefixes ==
  { <<"0", "5", "0", "4">>, <<"0", "5", "4", "4">>, <<"0", "5", "4", "5">>, <<"0", "5", "4", "6">>,
    <<"0", "5", "5", "4">>, <<"0", "5", "5", "5">>, <<"0", "5", "5", "6">>, <<"0", "5", "5", "7">>,
    <<"0", "6", "4", "0">>, <<"0", "6", "4", "1">>, <<"0", "6", "4", "2">>, <<"0", "6", "4", "3">>,
    <<"0", "6", "4", "4">>, <<"0", "6", "4", "5">>, <<"0", "6", "4", "6">>, <<"0", "6", "4", "7">>,
    <<"0", "6", "4", "8">>, <<"0", "6", "4", "9">>, <<"0", "6", "5", "0">>, <<"0", "6", "5", "1">>,
    <<"0", "6", "5", "2">>, <<"0", "6", "5", "3">>, <<"0", "6", "5", "4">>, <<"0", "6", "5", "5">>,
    <<"0", "6", "5", "6">>, <<"0", "6", "5", "7">>, <<"0", "6", "5", "8">>, <<"0", "6", "5", "9">> }

moov_prefixes ==
  { <<"0", "1", "0", "0">>, <<"0", "1", "0", "1">>, <<"0", "1", "0", "2">>, <<"0", "1", "0", "3">>,
    <<"0", "2", "0", "1">>, <<"0", "2", "0", "2">>, <<"0", "2", "0", "3">>, <<"0", "2", "0", "4">>,
    <<"0", "2", "0", "5">>, <<"0", "3", "0", "1">>, <<"0", "3", "0", "2">>, <<"0", "3", "0", "3">>,
    <<"0", "3", "0", "4">>, <<"0", "3", "0", "5">> }

\* a detection that tries the two-digit ranges before the four-digit tables
detect_provider_RangesFirst(phone_number) ==
  LET v == validate_ivorian_phone(phone_number) IN
  IF ~v.ok \/ v.cleaned = << >> THEN "none"
  ELSE LET number == SubSeq(v.cleaned, 5, Len(v.cleaned))
           prefix_4 == SubSeq(number, 1, 4)
           prefix_2 == SubSeq(number, 1, 2)
       IN IF prefix_2 = <<"0", "7">> THEN "orange_money"
          ELSE IF prefix_2 \in {<<"0", "4">>, <<"0", "5">>, <<"0", "6">>} THEN "mtn_money"
          ELSE IF prefix_2 \in {<<"0", "1">>, <<"0", "2">>, <<"0", "3">>} THEN "moov_money"
          ELSE IF prefix_4 \in orange_prefixes THEN "orange_money"
          ELSE "none"

\* detect_provider: the provider name, or "none" for None
detect_provider(phone_number) ==
  LET v == validate_ivorian_phone(phone_number) IN
  IF ~v.ok \/ v.cleaned = << >> THEN "none"
  ELSE LET number == SubSeq(v.cleaned, 5, Len(v.cleaned))
           prefix_4 == SubSeq(number, 1, 4)
           prefix_2 == SubSeq(number, 1, 2)
       IN IF prefix_4 \in orange_prefixes \/ prefix_2 = <<"0", "7">>
            THEN "orange_money"
          ELSE IF /\ (prefix_4 \in mtn_prefixes
                        \/ prefix_2 \in {<<"0", "4">>, <<"0", "5">>, <<"0", "6">>})
                  /\ \/ (prefix_2 = <<"0", "5">> /\ prefix_4 \notin orange_prefixes)
                     \/ prefix_2 \in {<<"0", "4">>, <<"0", "6">>}
            THEN "mtn_money"
          ELSE IF /\ (prefix_4 \in moov_prefixes
                        \/ prefix_2 \in {<<"0", "1">>, <<"0", "2">>, <<"0", "3">>})
                  /\ \/ (prefix_2 = <<"0", "1">> /\ prefix_4 \notin orange_prefixes)
                     \/ prefix_2 \in {<<"0", "2">>, <<"0", "3">>}
            THEN "moov_money"
          ELSE "none"

\* +2250777123456
PhoneMagicSuccess == <<"+", "2", "2", "5", "0", "7", "7", "7", "1", "2", "3", "4", "5", "6">>
\* +2250777123458
PhoneMagicFailed == <<"+", "2", "2", "5", "0", "7", "7", "7", "1", "2", "3", "4", "5", "8">>
\* +225 07 07 12 34 56
PhoneOrangeSpaced == <<"+", "2", "2", "5", " ", "0", "7", " ", "0", "7", " ", "1", "2", " ", "3", "4", " ", "5", "6">>
\* +2250801123456
PhoneNoProvider == <<"+", "2", "2", "5", "0", "8", "0", "1", "1", "2", "3", "4", "5", "6">>
\* +2330707123456
PhoneWrongCountry == <<"+", "2", "3", "3", "0", "7", "0", "7", "1", "2", "3", "4", "5", "6">>

\* the numbers buyers pay with: Orange numbers (auto-success, auto-failure and
\* plain), a valid number of no provider and a foreign number
PhoneInputs ==
  { PhoneMagicSuccess, PhoneMagicFailed, PhoneOrangeSpaced, PhoneNoProvider, PhoneWrongCountry }

\* simulation_service.MAGIC_NUMBERS.get(phone_number, "PENDING")
MagicBehavior(phone_number) ==
  IF phone_number = <<"+", "2", "2", "5", "0", "7", "7", "7", "1", "2", "3", "4", "5", "6">> THEN "SUCCESS"
  ELSE IF phone_number = <<"+", "2", "2", "5", "0", "7", "7", "7", "1", "2", "3", "4", "5", "8">> THEN "FAILED"
  ELSE "PENDING"

\* SimulationService.initiate_payment: which delayed task it schedules
SimulationSchedule(phone_number) ==
  LET magic_behavior == MagicBehavior(phone_number)
      auto_success == IF magic_behavior = "PENDING"
                        THEN EndsWith(phone_number, <<"0", "0", "0", "0">>)
                        ELSE magic_behavior = "SUCCESS"
      auto_failure == IF magic_behavior = "PENDING"
                        THEN EndsWith(phone_number, <<"9", "9", "9", "9">>)
                        ELSE magic_behavior = "FAILED"
  IN IF auto_failure THEN "auto_fail"
     ELSE IF auto_success THEN "auto_complete"
     ELSE "none"

\* ---------------------------------------------------- update_order_status
\* a restore that stops after the first line item
restore_product_stock_FirstItemOnly(order, st) == IncStock(st, << Head(order.products) >>, 1)

\* OrderService.restore_product_stock: one $inc per line item
restore_product_stock(order, st) == IncStock(st, order.products, 1)

\* an update that sets shipped_at but does not store the tracking number
StatusUpdate_TrackingNotStored(order, new_status, user_id, tracking_number, cancelled_by) ==
  [order EXCEPT
     !.status = new_status,
     !.status_history = Append(@, [status |-> new_status, changed_by |-> user_id]),
     !.shipped_at = IF new_status = "shipped" THEN TRUE ELSE @,
     !.delivered_at = IF new_status = "delivered" THEN TRUE ELSE @,
     !.cancelled_by = IF new_status = "cancelled" THEN cancelled_by ELSE @]

\* an update that stamps delivered_at already when the order is shipped
StatusUpdate_DeliveredAtOnShip(order, new_status, user_id, tracking_number, cancelled_by) ==
  [order EXCEPT
     !.status = new_status,
     !.status_history = Append(@, [status |-> new_status, changed_by |-> user_id]),
     !.shipped_at = IF new_status = "shipped" THEN TRUE ELSE @,
     !.tracking_number = IF new_status = "shipped" THEN tracking_number ELSE @,
     !.delivered_at = IF new_status \in {"shipped", "delivered"} THEN TRUE ELSE @,
     !.cancelled_by = IF new_status = "cancelled" THEN cancelled_by ELSE @]

\* the $set / $push of update_order_status on the stored order
StatusUpdate(order, new_status, user_id, tracking_number, cancelled_by) ==
  [order EXCEPT
     !.status = new_status,
     !.status_history = Append(@, [status |-> new_status, changed_by |-> user_id]),
     !.shipped_at = IF new_status = "shipped" THEN TRUE ELSE @,
     !.tracking_number = IF new_status = "shipped" THEN tracking_number ELSE @,
     !.delivered_at = IF new_status = "delivered" THEN TRUE ELSE @,
     !.cancelled_by = IF new_status = "cancelled" THEN cancelled_by ELSE @]

\* OrderService.update_order_status; tracking_number "none" is a missing or
\* empty tracking number, cancelled_by "none" is None
update_order_status(order_id, new_status, user_id, user_role, tracking_number, cancelled_by) ==
  LET k == OrderAt(ObjectId(order_id)) IN
  /\ resp = NoResp
  /\ IF k = 0
       THEN /\ resp' = Resp("update_order_status", FALSE, "order_not_found", NoId)
            /\ UNCHANGED << orders, stock >>
       ELSE LET order == orders[k]
                can == can_user_change_status(order, new_status, user_id, user_role)
            IN IF ~can.ok
                 THEN /\ resp' = Resp("update_order_status", FALSE, can.msg, NoId)
                      /\ UNCHANGED << orders, stock >>
               ELSE IF new_status = "shipped" /\ tracking_number = "none"
                 THEN /\ resp' = Resp("update_order_status", FALSE, "tracking_required", NoId)
                      /\ UNCHANGED << orders, stock >>
               ELSE /\ Len(order.status_history) < MaxHistory
                    /\ orders' = [orders EXCEPT ![k] =
                                    StatusUpdate(order, new_status, user_id,
                                                 tracking_number, cancelled_by)]
                    /\ stock' = IF new_status = "cancelled"
                                  THEN restore_product_stock(order, stock)
                                  ELSE stock
                    /\ resp' = Resp("update_order_status", TRUE, new_status, NoId)
  /\ UNCHANGED << mode, paycap, inflight, call, now, payments, refunds, tasks >>

OrderIdInputs == 1..MaxOrders
StatusInputs == OrderStatuses
TrackingInputs == {"none", "TRK"}

\* PATCH /orders/{id}/status: the generic endpoint passes no cancelled_by
update_order_status_route(order_id, new_status, user_id, tracking_number) ==
  update_order_status(order_id, new_status, user_id, RoleOf(user_id), tracking_number, "none")

\* POST /orders/{id}/cancel
cancel_order(order_id, user_id) ==
  update_order_status(order_id, "cancelled", user_id, RoleOf(user_id), "none",
                      IF RoleOf(user_id) = "buyer" THEN "customer" ELSE "merchant")

\* ------------------------------------------------------- initiate_payment
\* what the gateway's initiate call can answer.  SIMULATION always accepts;
\* a real adapter accepts ("ok"), catches a transport failure and returns
\* success=false ("api_error"), or lets the exception of _get_access_token
\* escape ("auth_error": Orange and MTN only)
GatewayOutcomes(provider) ==
  IF mode = "SIMULATION" THEN {"ok"}
  ELSE IF provider = "moov_money" THEN {"ok", "api_error"}
  ELSE {"ok", "api_error", "auth_error"}

Payment(payment_id, order_id, user_id, merchant_id, amount, provider) ==
  [ payment_id |-> payment_id,
    order_id |-> order_id,
    user_id |-> user_id,
    merchant_id |-> merchant_id,
    amount |-> amount,
    provider |-> provider,
    status |-> "pending",
    transaction_id |-> NoTxn,
    failure_reason |-> FALSE,
    expires_at |-> now + TimeoutTicks,
    completed_at |-> NoTime ]

\* an existing-payment query that also finds failed payments
ExistingPayment_FailedToo(order_id) ==
  FirstIdx(payments, LAMBDA p : p.order_id = order_id
                                 /\ p.status \in {"pending", "processing", "failed"})

\* db.payments.find_one({"order_id": ..., "status": {"$in": [pending, processing]}})
ExistingPayment(order_id) ==
  FirstIdx(payments, LAMBDA p : p.order_id = order_id /\ p.status \in {"pending", "processing"})

\* PaymentService.initiate_payment
initiate_payment(order_id, phone_number, user_id, merchant_id, amount, outcome) ==
  LET v == validate_ivorian_phone(phone_number)
      provider == detect_provider(v.cleaned)
      e == ExistingPayment(order_id)
      payment_id == Len(payments) + 1
      payment == Payment(payment_id, order_id, user_id, merchant_id, amount, provider)
      schedule == SimulationSchedule(v.cleaned)
  IN
  IF ~v.ok
    THEN /\ outcome = "ok"
         /\ resp' = Resp("initiate_payment", FALSE, "invalid_phone", NoId)
         /\ UNCHANGED << payments, tasks >>
  ELSE IF provider = "none"
    THEN /\ outcome = "ok"
         /\ resp' = Resp("initiate_payment", FALSE, "no_provider", NoId)
         /\ UNCHANGED << payments, tasks >>
  ELSE IF e # 0 /\ payments[e].expires_at > now
    THEN /\ outcome = "ok"
         /\ resp' = Resp("initiate_payment", FALSE, "pending_exists", payments[e].payment_id)
         /\ UNCHANGED << payments, tasks >>
  ELSE /\ Len(payments) < paycap
       /\ outcome \in GatewayOutcomes(provider)
       /\ IF outcome = "auth_error"
            THEN /\ payments' = Append(payments, payment)
                 /\ resp' = Resp("initiate_payment", FALSE, "unhandled_exception", NoId)
                 /\ UNCHANGED tasks
          ELSE IF outcome = "api_error"
            THEN /\ payments' = Append(payments,
                                       [payment EXCEPT !.status = "failed",
                                                       !.failure_reason = TRUE])
                 /\ resp' = Resp("initiate_payment", FALSE, "provider_failed", payment_id)
                 /\ UNCHANGED tasks
          ELSE /\ payments' = Append(payments,
                                     [payment EXCEPT !.transaction_id = payment_id,
                                                     !.status = "pending"])
               /\ tasks' = IF mode = "SIMULATION" /\ schedule # "none"
                             THEN tasks \cup {[payment_id |-> payment_id, kind |-> schedule]}
                             ELSE tasks
               /\ resp' = Resp("initiate_payment", TRUE, "initiated", payment_id)

\* POST /payments/initiate
initiate_payment_route(order_id, phone_number, user_id, outcome) ==
  LET k == OrderAt(ObjectId(order_id)) IN
  /\ resp = NoResp
  /\ IF k = 0
       THEN /\ outcome = "ok"
            /\ resp' = Resp("initiate_payment", FALSE, "order_not_found", NoId)
            /\ UNCHANGED << payments, tasks >>
     ELSE IF orders[k].user_id # user_id
       THEN /\ outcome = "ok"
            /\ resp' = Resp("initiate_payment", FALSE, "not_your_order", NoId)
            /\ UNCHANGED << payments, tasks >>
     ELSE IF orders[k].status # "pending"
       THEN /\ outcome = "ok"
            /\ resp' = Resp("initiate_payment", FALSE, "order_not_pending", NoId)
            /\ UNCHANGED << payments, tasks >>
     ELSE initiate_payment(order_id, phone_number, user_id, orders[k].merchant_id,
                           orders[k].total_amount, outcome)
  /\ UNCHANGED << mode, paycap, inflight, call, now, stock, orders, refunds >>

\* --------------------------------------------------- check_payment_status
\* what the gateway's status call can answer for a payment that has a
\* transaction id: SIMULATION always reports pending; a real adapter reports
\* a mapped status, a caught transport failure ("api_error") or lets the
\* exception of _get_access_token escape ("auth_error": Orange and MTN only)
ProviderStatusAnswers(provider) ==
  IF mode = "SIMULATION" THEN {"pending"}
  ELSE {"completed", "pending", "failed", "cancelled", "api_error"}
         \cup (IF provider = "moov_money" THEN {} ELSE {"auth_error"})

\* PaymentService.check_payment_status
check_payment_status(payment_id, user_id, answer) ==
  LET k == PaymentAt(payment_id) IN
  /\ resp = NoResp
  /\ IF k = 0
       THEN /\ answer = "pending"
            /\ resp' = Resp("check_payment_status", FALSE, "payment_not_found", NoId)
            /\ UNCHANGED payments
     ELSE LET payment == payments[k] IN
       IF payment.user_id # user_id /\ payment.merchant_id # user_id
         THEN /\ answer = "pending"
              /\ resp' = Resp("check_payment_status", FALSE, "unauthorized", NoId)
              /\ UNCHANGED payments
       ELSE IF payment.status \in {"completed", "failed", "cancelled", "refunded"}
         THEN /\ answer = "pending"
              /\ resp' = Resp("check_payment_status", TRUE, payment.status, payment_id)
              /\ UNCHANGED payments
       ELSE IF payment.expires_at # NoTime /\ payment.expires_at < now
         THEN /\ answer = "pending"
              /\ payments' = [payments EXCEPT ![k].status = "expired",
                                              ![k].failure_reason = TRUE]
              /\ resp' = Resp("check_payment_status", TRUE, "expired", payment_id)
       ELSE IF payment.status \in {"pending", "processing"} /\ payment.transaction_id # NoTxn
         THEN /\ answer \in ProviderStatusAnswers(payment.provider)
              /\ IF answer = "auth_error"
                   THEN /\ resp' = Resp("check_payment_status", FALSE, "unhandled_exception", NoId)
                        /\ UNCHANGED payments
                 ELSE IF answer = "api_error" \/ answer = payment.status
                   THEN /\ resp' = Resp("check_payment_status", TRUE, payment.status, payment_id)
                        /\ UNCHANGED payments
                 ELSE /\ payments' =
                           [payments EXCEPT
                              ![k].status = answer,
                              ![k].completed_at = IF answer = "completed" THEN now ELSE @,
                              ![k].failure_reason = IF answer = "failed" THEN TRUE ELSE @]
                      /\ resp' = Resp("check_payment_status", TRUE, answer, payment_id)
       ELSE /\ answer = "pending"
            /\ resp' = Resp("check_payment_status", TRUE, payment.status, payment_id)
            /\ UNCHANGED payments
  /\ UNCHANGED << mode, paycap, inflight, call, now, stock, orders, refunds, tasks >>

\* --------------------------------------------------------- process_webhook
\* a verification that asks no adapter: any provider name passes with a
\* matching signature
verify_webhook_signature_AnyProviderName(provider, hmac_matches) ==
  IF mode = "SIMULATION" THEN TRUE ELSE hmac_matches

\* PaymentService._verify_webhook_signature: SIMULATION accepts everything;
\* otherwise the named provider's adapter compares the HMAC (hmac_matches),
\* and an unknown provider name is refused
verify_webhook_signature(provider, hmac_matches) ==
  IF mode = "SIMULATION" THEN TRUE
  ELSE IF provider \in Providers THEN hmac_matches
  ELSE FALSE

\* status_map.get(status, PROCESSING) of process_webhook
WebhookStatusMap(status) ==
  IF status \in {"success", "successful", "completed"} THEN "completed"
  ELSE IF status = "failed" THEN "failed"
  ELSE IF status = "cancelled" THEN "cancelled"
  ELSE "processing"

\* db.payments.find_one({"transaction_id": ref}); a payload without a reference
\* queries for null, which matches a payment whose transaction_id is null
PaymentByTransaction(ref) == FirstIdx(payments, LAMBDA p : p.transaction_id = ref)

\* PaymentService.process_webhook
process_webhook(provider, ref, status, hmac_matches) ==
  /\ resp = NoResp
  /\ IF ~verify_webhook_signature(provider, hmac_matches)
       THEN /\ resp' = Resp("process_webhook", FALSE, "invalid_signature", NoId)
            /\ UNCHANGED << payments, orders >>
     ELSE LET k == PaymentByTransaction(ref) IN
       IF k = 0
         THEN /\ resp' = Resp("process_webhook", FALSE, "payment_not_found", NoId)
              /\ UNCHANGED << payments, orders >>
       ELSE LET payment == payments[k]
                new_status == WebhookStatusMap(status)
                o == OrderAt(ObjectId(payment.order_id))
            IN /\ payments' =
                    [payments EXCEPT
                       ![k].status = new_status,
                       ![k].completed_at = IF new_status = "completed" THEN now ELSE @,
                       ![k].failure_reason = IF new_status = "failed" THEN TRUE ELSE @]
               /\ orders' =
                    IF o = 0 THEN orders
                    ELSE IF new_status = "completed"
                      THEN [orders EXCEPT ![o].status = "confirmed",
                                          ![o].payment_status = "completed"]
                    ELSE IF new_status = "failed"
                      THEN [orders EXCEPT ![o].payment_status = "failed"]
                    ELSE orders
               /\ resp' = Resp("process_webhook", TRUE, new_status, payment.payment_id)
  /\ UNCHANGED << mode, paycap, inflight, call, now, stock, refunds, tasks >>

\* ---------------------------------------------------------- cancel_payment
\* a cancellation that the merchant of the payment may request as well
cancel_payment_MerchantToo(payment_id, user_id) ==
  LET k == PaymentAt(payment_id) IN
  /\ resp = NoResp
  /\ IF k = 0
       THEN /\ resp' = Resp("cancel_payment", FALSE, "payment_not_found", NoId)
            /\ UNCHANGED payments
     ELSE IF payments[k].user_id # user_id /\ payments[k].merchant_id # user_id
       THEN /\ resp' = Resp("cancel_payment", FALSE, "unauthorized", NoId)
            /\ UNCHANGED payments
     ELSE IF payments[k].status \notin {"pending", "processing"}
       THEN /\ resp' = Resp("cancel_payment", FALSE, "not_cancellable", NoId)
            /\ UNCHANGED payments
     ELSE /\ payments' = [payments EXCEPT ![k].status = "cancelled"]
          /\ resp' = Resp("cancel_payment", TRUE, "cancelled", payment_id)
  /\ UNCHANGED << mode, paycap, inflight, call, now, stock, orders, refunds, tasks >>

\* PaymentService.cancel_payment
cancel_payment(payment_id, user_id) ==
  LET k == PaymentAt(payment_id) IN
  /\ resp = NoResp
  /\ IF k = 0
       THEN /\ resp' = Resp("cancel_payment", FALSE, "payment_not_found", NoId)
            /\ UNCHANGED payments
     ELSE IF payments[k].user_id # user_id
       THEN /\ resp' = Resp("cancel_payment", FALSE, "unauthorized", NoId)
            /\ UNCHANGED payments
     ELSE IF payments[k].status \notin {"pending", "processing"}
       THEN /\ resp' = Resp("cancel_payment", FALSE, "not_cancellable", NoId)
            /\ UNCHANGED payments
     ELSE /\ payments' = [payments EXCEPT ![k].status = "cancelled"]
          /\ resp' = Resp("cancel_payment", TRUE, "cancelled", payment_id)
  /\ UNCHANGED << mode, paycap, inflight, call, now, stock, orders, refunds, tasks >>

\* ---------------------------------------------------------- refund_payment
\* a dispatch that knows the providers by another spelling
call_provider_refund_WrongNames(provider) == provider \in {"orange", "mtn", "moov"}

\* PaymentService._call_provider_refund: every known provider answers success
call_provider_refund(provider) == provider \in Providers

\* db.refunds.find_one({"payment_id": ..., "status": {"$in": [pending, processing, completed]}})
ExistingRefund(payment_id) ==
  FirstIdx(refunds, LAMBDA r : r.payment_id = payment_id
                               /\ r.status \in {"pending", "processing", "completed"})

\* an amount argument: None, or a number
NoneAmount == [none |-> TRUE, v |-> 0]
Amount(n) == [none |-> FALSE, v |-> n]

\* an amount check that forgets the lower bound
verify_refund_amount_NoLowerBound(amount, payment) ==
  IF amount > payment.amount THEN "amount_exceeds" ELSE "none"

\* refund_payment, "Verify amount": which check refuses the amount ("none": accepted)
verify_refund_amount(amount, payment) ==
  IF amount > payment.amount THEN "amount_exceeds"
  ELSE IF amount <= 0 THEN "amount_not_positive"
  ELSE "none"

\* PaymentService.refund_payment
refund_payment(payment_id, amount_arg, merchant_id) ==
  LET k == PaymentAt(payment_id) IN
  /\ resp = NoResp
  /\ IF k = 0
       THEN /\ resp' = Resp("refund_payment", FALSE, "payment_not_found", NoId)
            /\ UNCHANGED << payments, orders, refunds >>
     ELSE LET payment == payments[k]
              amount == IF amount_arg.none THEN payment.amount ELSE amount_arg.v
              e == ExistingRefund(payment_id)
              refund_id == Len(refunds) + 1
              provider_ok == IF mode = "SIMULATION" THEN TRUE
                             ELSE call_provider_refund(payment.provider)
              refund == [ refund_id |-> refund_id,
                          payment_id |-> payment_id,
                          order_id |-> payment.order_id,
                          merchant_id |-> merchant_id,
                          amount |-> amount,
                          status |-> IF provider_ok THEN "completed" ELSE "failed" ]
              o == OrderAt(ObjectId(payment.order_id))
          IN
       IF payment.merchant_id # merchant_id
         THEN /\ resp' = Resp("refund_payment", FALSE, "only_merchant", NoId)
              /\ UNCHANGED << payments, orders, refunds >>
       ELSE IF payment.status # "completed"
         THEN /\ resp' = Resp("refund_payment", FALSE, "not_completed", NoId)
              /\ UNCHANGED << payments, orders, refunds >>
       ELSE IF verify_refund_amount(amount, payment) # "none"
         THEN /\ resp' = Resp("refund_payment", FALSE, verify_refund_amount(amount, payment), NoId)
              /\ UNCHANGED << payments, orders, refunds >>
       ELSE IF e # 0
         THEN /\ resp' = Resp("refund_payment", FALSE, "refund_exists", refunds[e].refund_id)
              /\ UNCHANGED << payments, orders, refunds >>
       ELSE /\ Len(refunds) < MaxRefunds
            /\ refunds' = Append(refunds, refund)
            /\ IF ~provider_ok
                 THEN /\ resp' = Resp("refund_payment", FALSE, "provider_refund_failed", refund_id)
                      /\ UNCHANGED << payments, orders >>
                 ELSE /\ payments' = [payments EXCEPT ![k].status = "refunded"]
                      /\ orders' =
                           IF o = 0 THEN orders
                           ELSE [orders EXCEPT
                                   ![o].status = "cancelled",
                                   ![o].payment_status = "refunded",
                                   ![o].status_history =
                                      Append(@, [status |-> "cancelled", changed_by |-> merchant_id])]
                      /\ resp' = Resp("refund_payment", TRUE, "refunded", refund_id)
  /\ UNCHANGED << mode, paycap, inflight, call, now, stock, tasks >>

\* a simulation endpoint that does not look at the operating mode
simulate_payment_AnyMode(payment_id, success) ==
  LET k == PaymentAt(payment_id) IN
  /\ resp = NoResp
  /\ IF k = 0
       THEN /\ resp' = Resp("simulate_payment", FALSE, "payment_not_found", NoId)
            /\ UNCHANGED << payments, orders >>
     ELSE IF payments[k].status \notin {"pending", "processing"}
       THEN /\ resp' = Resp("simulate_payment", FALSE, "not_simulable", NoId)
            /\ UNCHANGED << payments, orders >>
     ELSE IF success
       THEN LET o == OrderAt(ObjectId(payments[k].order_id)) IN
            /\ payments' = [payments EXCEPT ![k].status = "completed",
                                            ![k].completed_at = now]
            /\ orders' = IF o = 0 THEN orders
                         ELSE [orders EXCEPT ![o].status = "confirmed",
                                             ![o].payment_status = "completed"]
            /\ resp' = Resp("simulate_payment", TRUE, "completed", payment_id)
     ELSE /\ payments' = [payments EXCEPT ![k].status = "failed",
                                          ![k].failure_reason = TRUE]
          /\ UNCHANGED orders
          /\ resp' = Resp("simulate_payment", TRUE, "failed", payment_id)
  /\ UNCHANGED << mode, paycap, inflight, call, now, stock, refunds, tasks >>

\* -------------------------------------------------------- simulate_payment
\* POST /payments/admin/{id}/simulate-success|failure and
\* PaymentService.simulate_payment
simulate_payment(payment_id, success) ==
  LET k == PaymentAt(payment_id) IN
  /\ resp = NoResp
  /\ IF mode # "SIMULATION"
       THEN /\ resp' = Resp("simulate_payment", FALSE, "simulation_only", NoId)
            /\ UNCHANGED << payments, orders >>
     ELSE IF k = 0
       THEN /\ resp' = Resp("simulate_payment", FALSE, "payment_not_found", NoId)
            /\ UNCHANGED << payments, orders >>
     ELSE IF payments[k].status \notin {"pending", "processing"}
       THEN /\ resp' = Resp("simulate_payment", FALSE, "not_simulable", NoId)
            /\ UNCHANGED << payments, orders >>
     ELSE IF success
       THEN LET o == OrderAt(ObjectId(payments[k].order_id)) IN
            /\ payments' = [payments EXCEPT ![k].status = "completed",
                                            ![k].completed_at = now]
            /\ orders' = IF o = 0 THEN orders
                         ELSE [orders EXCEPT ![o].status = "confirmed",
                                             ![o].payment_status = "completed"]
            /\ resp' = Resp("simulate_payment", TRUE, "completed", payment_id)
     ELSE /\ payments' = [payments EXCEPT ![k].status = "failed",
                                          ![k].failure_reason = TRUE]
          /\ UNCHANGED orders
          /\ resp' = Resp("simulate_payment", TRUE, "failed", payment_id)
  /\ UNCHANGED << mode, paycap, inflight, call, now, stock, refunds, tasks >>

\* ------------------------------------------------ simulation delayed tasks
\* SimulationService._auto_complete_payment, once its sleep is over.  The
\* payment is updated by payment_id whatever its status; the order is then
\* looked up with the payment's order_id string as _id.
auto_complete_payment(task) ==
  LET k == PaymentAt(task.payment_id) IN
  /\ resp = NoResp
  /\ task \in tasks
  /\ task.kind = "auto_complete"
  /\ tasks' = tasks \ {task}
  /\ IF k = 0
       THEN UNCHANGED << payments, orders >>
       ELSE LET o == OrderAt(StrId(payments[k].order_id)) IN
            /\ payments' = [payments EXCEPT ![k].status = "completed",
                                            ![k].completed_at = now]
            /\ orders' =
                 IF o = 0 THEN orders
                 ELSE [orders EXCEPT
                         ![o].status = "confirmed",
                         ![o].payment_status = "completed",
                         ![o].status_history =
                            Append(@, [status |-> "confirmed", changed_by |-> "system"])]
  /\ UNCHANGED << mode, paycap, inflight, call, now, stock, refunds, resp >>

\* SimulationService._auto_fail_payment, once its sleep is over
auto_fail_payment(task) ==
  LET k == PaymentAt(task.payment_id) IN
  /\ resp = NoResp
  /\ task \in tasks
  /\ task.kind = "auto_fail"
  /\ tasks' = tasks \ {task}
  /\ IF k = 0
       THEN UNCHANGED payments
       ELSE payments' = [payments EXCEPT ![k].status = "failed",
                                         ![k].failure_reason = TRUE]
  /\ UNCHANGED << mode, paycap, inflight, call, now, stock, orders, refunds, resp >>

\* ------------------------------------------------------------------ inputs
PaymentIdInputs == 1..paycap
\* a webhook reference: none, or the transaction id a payment has or will have
TransactionRefInputs == {NoTxn} \cup (1..paycap)
WebhookStatusInputs == {"success", "failed", "cancelled", "pending"}
\* (provider named in the URL, whether the signature matches the body)
WebhookSenders == { <<"orange_money", TRUE>>, <<"orange_money", FALSE>>, <<"acme_pay", TRUE>> }
RefundAmountInputs == {NoneAmount, Amount(0), Amount(3), Amount(6), Amount(7)}
RefundCallers == {"m1", "m2"}
\* (target status, tracking number): the tracking number is read for shipped only
StatusRequests ==
  { <<t, trk>> \in StatusInputs \X TrackingInputs : trk = "none" \/ t = "shipped" }
\* who calls the payment endpoints: the buyer of the order, another buyer, the merchant
PaymentCallers == {"b1", "b2", "m1"}

\* requests are served one at a time: the next one is taken once the previous
\* response is delivered (the guard every handler starts with, tested first)
Next ==
  \/ Tick
  \/ Reply
  \/ resp = NoResp /\ \E u \in OrderingBuyers, items \in OrderItemChoices : create_order(u, items)
  \/ resp = NoResp /\ \E o \in OrderIdInputs, r \in StatusRequests, u \in Users :
       update_order_status_route(o, r[1], u, r[2])
  \/ resp = NoResp /\ \E o \in OrderIdInputs, u \in Users : cancel_order(o, u)
  \/ resp = NoResp /\ \E o \in OrderIdInputs, ph \in PhoneInputs, u \in Buyers,
        out \in {"ok", "api_error", "auth_error"} :
       initiate_payment_route(o, ph, u, out)
  \/ resp = NoResp /\ \E p \in PaymentIdInputs, u \in PaymentCallers,
        a \in {"completed", "pending", "failed", "cancelled", "api_error", "auth_error"} :
       check_payment_status(p, u, a)
  \/ resp = NoResp /\ \E w \in WebhookSenders, ref \in TransactionRefInputs, st \in WebhookStatusInputs :
       process_webhook(w[1], ref, st, w[2])
  \/ resp = NoResp /\ \E p \in PaymentIdInputs, u \in PaymentCallers : cancel_payment(p, u)
  \/ resp = NoResp /\ \E p \in PaymentIdInputs, a \in RefundAmountInputs, m \in RefundCallers :
       refund_payment(p, a, m)
  \/ resp = NoResp /\ \E p \in PaymentIdInputs, b \in BOOLEAN : simulate_payment(p, b)
  \/ resp = NoResp /\ \E t \in tasks : auto_complete_payment(t)
  \/ resp = NoResp /\ \E t \in tasks : auto_fail_payment(t)

Spec == Init /\ [][Next]_vars

\* ------------------------------------------------- payments of one order
\* the buyer's side of paying one order: initiations, polls, cancellations
\* and the clock, with room for MaxPaymentsPerOrder payments
InitInitiate == InitWith(MaxPaymentsPerOrder)

NextInitiate ==
  \/ Tick
  \/ Reply
  \/ \E u \in OrderingBuyers, items \in OrderItemChoices : create_order(u, items)
  \/ \E o \in OrderIdInputs, ph \in PhoneInputs, u \in Buyers,
        out \in {"ok", "api_error", "auth_error"} :
       initiate_payment_route(o, ph, u, out)
  \/ \E p \in PaymentIdInputs, u \in PaymentCallers,
        a \in {"completed", "pending", "failed", "cancelled", "api_error", "auth_error"} :
       check_payment_status(p, u, a)
  \/ \E p \in PaymentIdInputs, u \in PaymentCallers : cancel_payment(p, u)

SpecInitiate == InitInitiate /\ [][NextInitiate]_vars

\* ------------------------------------------ calls of validate_status_transition
\* the five statuses, and strings that are no status of an order
StatusArgs == OrderStatuses \cup {"paid", "returned", "processing", "PENDING", ""}

InitValidate ==
  /\ mode = "PRODUCTION"
  /\ EmptyDatabase
  /\ paycap = 0
  /\ call \in { [fn |-> "validate_status_transition", args |-> <<c, t>>,
                 done |-> FALSE, result |-> [ok |-> FALSE, msg |-> "none"]] :
               c \in StatusArgs, t \in StatusArgs }

call_validate_status_transition ==
  /\ call.fn = "validate_status_transition"
  /\ ~call.done
  /\ call' = [call EXCEPT !.done = TRUE,
                          !.result = validate_status_transition(call.args[1], call.args[2])]
  /\ UNCHANGED << mode, paycap, inflight, now, stock, orders, payments, refunds, tasks, resp >>

NextValidate == call_validate_status_transition

SpecValidate == InitValidate /\ [][NextValidate]_vars

\* the adjacency table of the order lifecycle
AdjacencyPairs ==
  { <<"pending", "confirmed">>, <<"pending", "cancelled">>,
    <<"confirmed", "shipped">>, <<"confirmed", "cancelled">>,
    <<"shipped", "delivered">> }

\* C1: validate_status_transition answers valid for exactly the five pairs of
\* the adjacency table and rejected for every other pair, whatever the current
\* status (terminal, or no status at all) and whatever the target.
C1_ExactlyFivePairs ==
  (call.fn = "validate_status_transition" /\ call.done)
    => (call.result.ok <=> call.args \in AdjacencyPairs)

\* a valid pair was submitted and accepted
C1_Witness ==
  /\ call.fn = "validate_status_transition"
  /\ call.done
  /\ call.args = <<"confirmed", "shipped">>
  /\ call.result.ok

\* C2: delivered and cancelled are terminal for the whole system: whatever
\* operation takes a step, an order whose stored status is delivered or
\* cancelled keeps that status.
C2_TerminalForWholeSystem ==
  [][\A i \in Idx(orders) :
       orders[i].status \in {"delivered", "cancelled"}
         => orders'[i].status = orders[i].status]_vars

\* C3: a completion webhook delivered again, for a payment that a completion
\* has already been applied to (Payment completed, Order payment_status
\* completed), is a no-op: the Payment's status and completed_at and the
\* Order's status, payment_status and status_history stay as they were.
C3_ReplayedCompletionIsNoOp ==
  [][(/\ resp = NoResp
      /\ resp'.op = "process_webhook"
      /\ resp'.ok
      /\ resp'.msg = "completed"
      /\ payments[resp'.ref].status = "completed"
      /\ \E i \in Idx(orders) : /\ orders[i]._id = ObjectId(payments[resp'.ref].order_id)
                                /\ orders[i].payment_status = "completed")
       => LET k == resp'.ref
              o == OrderAt(ObjectId(payments[k].order_id))
          IN /\ payments'[k].status = payments[k].status
             /\ payments'[k].completed_at = payments[k].completed_at
             /\ orders'[o].status = orders[o].status
             /\ orders'[o].payment_status = orders[o].payment_status
             /\ orders'[o].status_history = orders[o].status_history]_vars

\* the payment statuses the rules call terminal
TerminalPaymentStatuses == {"completed", "failed", "cancelled", "refunded", "expired"}

\* C4: a webhook whose reference names a Payment already in a terminal status returns
\* success and changes nothing: no Payment is overwritten and no Order touched,
\* whatever status the payload carries.
C4_TerminalPaymentIgnoresWebhook ==
  [][(resp = NoResp /\ resp'.op = "process_webhook") =>
     \A w \in WebhookSenders, ref \in TransactionRefInputs, st \in WebhookStatusInputs :
       LET k == PaymentByTransaction(ref) IN
       (/\ verify_webhook_signature(w[1], w[2])
        /\ ref # NoTxn
        /\ k # 0
        /\ payments[k].status \in TerminalPaymentStatuses
        /\ process_webhook(w[1], ref, st, w[2]))
         => resp'.ok /\ payments' = payments /\ orders' = orders]_vars

\* a payment that blocks a new one: pending or processing, deadline not reached
Outstanding(p) == p.status \in {"pending", "processing"} /\ p.expires_at > now

\* C5: while some Payment of an order is pending or processing and not yet
\* expired, initiate_payment for that order is rejected with the id of an
\* outstanding payment and no new Payment record is created for the order.
C5_NoPaymentBesideOutstanding ==
  [][(resp = NoResp /\ resp'.op = "initiate_payment") =>
     \A o \in OrderIdInputs, ph \in PhoneInputs, u \in Buyers,
        out \in {"ok", "api_error", "auth_error"} :
       LET k == OrderAt(ObjectId(o))
           blocking == {j \in Idx(payments) : payments[j].order_id = o /\ Outstanding(payments[j])}
       IN (/\ k # 0
           /\ orders[k].user_id = u
           /\ orders[k].status = "pending"
           /\ validate_ivorian_phone(ph).ok
           /\ detect_provider(validate_ivorian_phone(ph).cleaned) # "none"
           /\ blocking # {}
           /\ initiate_payment_route(o, ph, u, out))
            => /\ ~resp'.ok
               /\ \E j \in blocking : resp'.ref = payments[j].payment_id
               /\ payments' = payments]_vars

\* C6: a refund of the full amount (given, or defaulted from None) by the
\* owning merchant on a completed Payment without a non-failed refund succeeds:
\* one Refund is created and ends completed, the Payment becomes refunded, the
\* Order becomes cancelled with payment_status refunded and one more history entry.
C6_FullRefundSucceeds ==
  [][(resp = NoResp /\ resp'.op = "refund_payment") =>
     \A p \in PaymentIdInputs, a \in RefundAmountInputs, m \in RefundCallers :
       LET k == PaymentAt(p) IN
       (/\ k # 0
        /\ payments[k].merchant_id = m
        /\ payments[k].status = "completed"
        /\ (a.none \/ a.v = payments[k].amount)
        /\ ExistingRefund(p) = 0
        /\ refund_payment(p, a, m))
         => LET o == OrderAt(ObjectId(payments[k].order_id))
                n == Len(refunds')
            IN /\ resp'.ok
               /\ n = Len(refunds) + 1
               /\ SubSeq(refunds', 1, n - 1) = refunds
               /\ refunds'[n].payment_id = p
               /\ refunds'[n].amount = payments[k].amount
               /\ refunds'[n].status = "completed"
               /\ payments'[k].status = "refunded"
               /\ o # 0
               /\ orders'[o].status = "cancelled"
               /\ orders'[o].payment_status = "refunded"
               /\ Len(orders'[o].status_history) = Len(orders[o].status_history) + 1
               /\ SubSeq(orders'[o].status_history, 1, Len(orders[o].status_history))
                    = orders[o].status_history
               /\ orders'[o].status_history[Len(orders'[o].status_history)].status = "cancelled"]_vars

\* a full refund has just succeeded
C6_Witness ==
  /\ resp.op = "refund_payment"
  /\ resp.ok
  /\ Len(refunds) = 1
  /\ refunds[1].status = "completed"
  /\ refunds[1].amount = payments[refunds[1].payment_id].amount
  /\ payments[refunds[1].payment_id].status = "refunded"
  /\ orders[1].status = "cancelled"

\* C7: once a pending, processing or completed refund is recorded for a
\* payment, a later refund_payment by the owning merchant on that payment is
\* rejected with the recorded refund's refund_id and creates no second Refund.
C7_LaterRefundNamesExisting ==
  [][(resp = NoResp /\ resp'.op = "refund_payment") =>
     \A p \in PaymentIdInputs :
       LET k == PaymentAt(p)
           e == ExistingRefund(p)
       IN (/\ k # 0
           /\ e # 0
           /\ refund_payment(p, NoneAmount, payments[k].merchant_id))
            => /\ ~resp'.ok
               /\ resp'.ref = refunds[e].refund_id
               /\ refunds' = refunds]_vars

\* C8: refund_payment is rejected and changes no Refund, Payment or Order when
\* the payment does not exist, the caller is not its merchant, its status is
\* not completed, the amount exceeds the payment amount or the amount is <= 0.
C8_RejectedRefundChangesNothing ==
  [][(resp = NoResp /\ resp'.op = "refund_payment") =>
     \A p \in PaymentIdInputs, a \in RefundAmountInputs, m \in RefundCallers :
       LET k == PaymentAt(p)
           amount == IF a.none THEN payments[k].amount ELSE a.v
       IN (/\ \/ k = 0
              \/ payments[k].merchant_id # m
              \/ payments[k].status # "completed"
              \/ amount > payments[k].amount
              \/ amount <= 0
           /\ refund_payment(p, a, m))
            => /\ ~resp'.ok
               /\ refunds' = refunds
               /\ payments' = payments
               /\ orders' = orders]_vars

\* a refund of amount 0 on a completed payment has just been refused
C8_Witness ==
  /\ resp.op = "refund_payment"
  /\ ~resp.ok
  /\ resp.msg = "amount_not_positive"
  /\ \E k \in Idx(payments) : payments[k].status = "completed"
  /\ refunds = << >>

\* the quantity of product pid an order holds, over all its line items
OrderedQuantity(order, pid) ==
  SumSeq([i \in Idx(order.products) |->
            IF order.products[i].product_id = pid THEN order.products[i].quantity ELSE 0])

\* C9: the buyer of an order who cancels it while it is pending succeeds: the
\* order becomes cancelled and every product's stock grows by the quantities
\* the order's line items hold of it; the buyer who cancels it while it is
\* shipped is rejected, and the order and every stock stay as they were.
C9_BuyerCancel ==
  [][(resp = NoResp /\ resp'.op = "update_order_status") =>
     \A o \in OrderIdInputs, u \in Buyers :
       LET k == OrderAt(ObjectId(o)) IN
       (/\ k # 0
        /\ orders[k].user_id = u
        /\ orders[k].status \in {"pending", "shipped"}
        /\ cancel_order(o, u))
         => /\ orders[k].status = "pending"
                 => /\ resp'.ok
                    /\ orders'[k].status = "cancelled"
                    /\ \A pid \in ProductIds :
                         stock'[pid] = stock[pid] + OrderedQuantity(orders[k], pid)
            /\ orders[k].status = "shipped"
                 => /\ ~resp'.ok
                    /\ orders' = orders
                    /\ stock' = stock]_vars

\* the buyer has just cancelled the pending order and the stock is back
C9_Witness ==
  /\ resp.op = "update_order_status"
  /\ resp.ok
  /\ resp.msg = "cancelled"
  /\ orders[1].cancelled_by = "customer"
  /\ Len(orders[1].products) > 1
  /\ \A pid \in ProductIds : stock[pid] = InitialStock

\* who may move an order to target status t, as the rules state it
Authorised(order, t, u) ==
  IF t \in {"confirmed", "shipped", "delivered"}
    THEN RoleOf(u) = "merchant" /\ order.merchant_id = u
  ELSE IF t = "cancelled"
    THEN \/ RoleOf(u) = "buyer" /\ order.user_id = u /\ order.status = "pending"
         \/ RoleOf(u) = "merchant" /\ order.merchant_id = u
              /\ order.status \in {"pending", "confirmed"}
  ELSE FALSE

\* C10: update_order_status changes an order only for an authorised actor:
\* an accepted request appends one history entry whose target status and
\* actor (changed_by) are authorised for the order as it stood; every other
\* request, the admin's included, is rejected and leaves the orders and the
\* stock unchanged.
C10_OnlyAuthorisedActors ==
  [][(resp = NoResp /\ resp'.op = "update_order_status")
       => IF resp'.ok
            THEN \E k \in Idx(orders) :
                   LET h == orders'[k].status_history
                       e == h[Len(h)]
                   IN /\ Len(h) = Len(orders[k].status_history) + 1
                      /\ orders'[k].status = e.status
                      /\ Authorised(orders[k], e.status, e.changed_by)
                      /\ \A i \in Idx(orders) \ {k} : orders'[i] = orders[i]
            ELSE orders' = orders /\ stock' = stock]_vars

\* an admin's cancellation has just been refused
C10_Witness ==
  /\ resp.op = "update_order_status"
  /\ ~resp.ok
  /\ resp.msg = "invalid_role"
  /\ orders # << >>

\* ======================================================= calculate_fees
\* Money is counted in hundredths of a franc, the grain of round(x, 2);
\* rates are counted in thousandths (2.5 % = 25).
MaxFeeAmount == 40
HundredthsPerFranc == 100
RateScale == 1000

\* PAYMENT_CONFIG["fees"] with the default environment
FeesConfig ==
  [ platform_commission_percent |-> 25,
    orange_gateway_fee_percent |-> 15,
    mtn_gateway_fee_percent |-> 18,
    moov_gateway_fee_percent |-> 20 ]

\* the default of fees_config.get(key, 2.0)
DefaultGatewayFeePercent == 20

\* the key calculate_fees looks up: f"{provider}_gateway_fee_percent"
GatewayFeeKey(provider) == provider \o "_gateway_fee_percent"

\* a lookup that names the configuration entries as the configuration does
GatewayFeePercent_ByConfiguredName(provider) ==
  IF provider = "orange_money" THEN FeesConfig.orange_gateway_fee_percent
  ELSE IF provider = "mtn_money" THEN FeesConfig.mtn_gateway_fee_percent
  ELSE IF provider = "moov_money" THEN FeesConfig.moov_gateway_fee_percent
  ELSE DefaultGatewayFeePercent

\* fees_config.get(f"{provider}_gateway_fee_percent", 2.0)
GatewayFeePercent(provider) ==
  IF GatewayFeeKey(provider) \in DOMAIN FeesConfig
    THEN FeesConfig[GatewayFeeKey(provider)]
    ELSE DefaultGatewayFeePercent

\* round(amount * rate, 2), for a rate of per_mille thousandths.  A product
\* that lies exactly between two hundredths is a float whose last bits decide
\* the direction: tie_up says which way this one goes.  The amount is split at
\* RateScale to keep the product within 32 bits.
round(amount, per_mille, tie_up) ==
  LET whole == (amount \div RateScale) * per_mille
      n == (amount % RateScale) * per_mille
      q == n \div RateScale
      r == n % RateScale
  IN whole + (IF 2 * r < RateScale THEN q
              ELSE IF 2 * r > RateScale THEN q + 1
              ELSE IF tie_up THEN q + 1 ELSE q)

FeeFields == {"platform_fee", "payment_gateway_fee", "merchant_payout"}

\* a payout that forgets the gateway's share
calculate_fees_PayoutBeforeGateway(amount, provider, ties_up) ==
  LET platform_fee == FeesConfig.platform_commission_percent
      gateway_fee == GatewayFeePercent(provider)
      merchant_payout == RateScale - platform_fee
  IN [ gross_amount |-> amount,
       platform_fee |-> round(amount, platform_fee, "platform_fee" \in ties_up),
       payment_gateway_fee |-> round(amount, gateway_fee, "payment_gateway_fee" \in ties_up),
       merchant_payout |-> round(amount, merchant_payout, "merchant_payout" \in ties_up) ]

\* payment_config.calculate_fees; the fees and the payout are carried as the
\* thousandths of the amount they are (amount - platform_fee - gateway_fee is
\* amount * (1 - 2.5 % - gateway rate))
calculate_fees(amount, provider, ties_up) ==
  LET platform_fee == FeesConfig.platform_commission_percent
      gateway_fee == GatewayFeePercent(provider)
      merchant_payout == RateScale - platform_fee - gateway_fee
  IN [ gross_amount |-> amount,
       platform_fee |-> round(amount, platform_fee, "platform_fee" \in ties_up),
       payment_gateway_fee |-> round(amount, gateway_fee, "payment_gateway_fee" \in ties_up),
       merchant_payout |-> round(amount, merchant_payout, "merchant_payout" \in ties_up) ]

\* gross amounts: every small amount down to one hundredth, and the order
\* totals of 46,000, 50,000 and 100,000 francs
FeeAmounts ==
  (1..MaxFeeAmount) \cup { 46000 * HundredthsPerFranc, 50000 * HundredthsPerFranc,
                           100000 * HundredthsPerFranc }
FeeProviders == Providers \cup {"acme_pay"}

InitFees ==
  /\ mode = "PRODUCTION"
  /\ EmptyDatabase
  /\ paycap = 0
  /\ call \in { [fn |-> "calculate_fees", args |-> <<a, p, t>>,
                 done |-> FALSE, result |-> << >>] :
               a \in FeeAmounts, p \in FeeProviders, t \in SUBSET FeeFields }

call_calculate_fees ==
  /\ call.fn = "calculate_fees"
  /\ ~call.done
  /\ call' = [call EXCEPT !.done = TRUE,
                          !.result = calculate_fees(call.args[1], call.args[2], call.args[3])]
  /\ UNCHANGED << mode, paycap, inflight, now, stock, orders, payments, refunds, tasks, resp >>

NextFees == call_calculate_fees

SpecFees == InitFees /\ [][NextFees]_vars

\* C11: for every gross amount above zero and every provider, known or not,
\* calculate_fees returns the gross amount it was given, and the three parts
\* add up to it within less than one franc.
C11_PartsAddUpToGross ==
  (call.fn = "calculate_fees" /\ call.done) =>
    LET total == call.result.platform_fee + call.result.payment_gateway_fee
                   + call.result.merchant_payout
    IN /\ call.result.gross_amount = call.args[1]
       /\ total - call.args[1] < HundredthsPerFranc
       /\ call.args[1] - total < HundredthsPerFranc

\* a fee computed on an amount whose platform fee falls between two hundredths
C11_Witness ==
  /\ call.fn = "calculate_fees"
  /\ call.done
  /\ call.args[1] = 20
  /\ call.args[2] = "mtn_money"
  /\ call.result.platform_fee = 1

\* C12: the gateway fee is charged at the rate configured for the provider
\* (1.5 %, 1.8 %, 2.0 %), the default serving unknown providers only; 46,000
\* francs through orange_money give 1,150 + 690 + 44,160.
C12_ProviderSpecificRate ==
  (call.fn = "calculate_fees" /\ call.done) =>
    /\ \E tie_up \in BOOLEAN :
         call.result.payment_gateway_fee =
           round(call.args[1], GatewayFeePercent_ByConfiguredName(call.args[2]), tie_up)
    /\ (call.args[1] = 46000 * HundredthsPerFranc /\ call.args[2] = "orange_money")
         => /\ call.result.platform_fee = 1150 * HundredthsPerFranc
            /\ call.result.payment_gateway_fee = 690 * HundredthsPerFranc
            /\ call.result.merchant_payout = 44160 * HundredthsPerFranc

\* ==================================================== provider detection
\* the numbers submitted: +225, every four-digit prefix that starts with 0,
\* and six more digits; and numbers in other spellings or malformed
NationalPrefixes == { <<"0", b, c, d>> : b \in Digits, c \in Digits, d \in Digits }
PhoneOfPrefix(prefix) ==
  <<"+", "2", "2", "5">> \o prefix \o <<"1", "2", "3", "4", "5", "6">>

\* 2250707123456
PhoneNoPlus == <<"2", "2", "5", "0", "7", "0", "7", "1", "2", "3", "4", "5", "6">>
\* +225-05-04-12-34-56
PhoneMtnHyphens == <<"+", "2", "2", "5", "-", "0", "5", "-", "0", "4", "-", "1", "2", "-", "3", "4", "-", "5", "6">>
\* +225070712345
PhoneTooShort == <<"+", "2", "2", "5", "0", "7", "0", "7", "1", "2", "3", "4", "5">>
\* +22507071234567
PhoneTooLong == <<"+", "2", "2", "5", "0", "7", "0", "7", "1", "2", "3", "4", "5", "6", "7">>
\* +22507071234a6
PhoneWithLetter == <<"+", "2", "2", "5", "0", "7", "0", "7", "1", "2", "3", "4", "a", "6">>
\* +2251707123456
PhonePrefixNotZero == <<"+", "2", "2", "5", "1", "7", "0", "7", "1", "2", "3", "4", "5", "6">>
\* 0707123456
PhoneNoCountryCode == <<"0", "7", "0", "7", "1", "2", "3", "4", "5", "6">>

MalformedPhones ==
  { PhoneWrongCountry, PhoneTooShort, PhoneTooLong, PhoneWithLetter,
    PhonePrefixNotZero, PhoneNoCountryCode, << >> }

PhoneCallInputs ==
  { PhoneOfPrefix(prefix) : prefix \in NationalPrefixes }
    \cup { PhoneNoPlus, PhoneMtnHyphens, PhoneOrangeSpaced } \cup MalformedPhones

\* one number per run: detect_provider is called on it, and the buyer
\* submits it to POST /payments/initiate
InitPhone ==
  /\ mode \in Modes
  /\ EmptyDatabase
  /\ paycap = MaxPayments
  /\ call \in { [fn |-> "detect_provider", args |-> <<ph>>, done |-> FALSE, result |-> "none"] :
               ph \in PhoneCallInputs }

call_detect_provider ==
  /\ call.fn = "detect_provider"
  /\ ~call.done
  /\ call' = [call EXCEPT !.done = TRUE, !.result = detect_provider(call.args[1])]
  /\ UNCHANGED << mode, paycap, inflight, now, stock, orders, payments, refunds, tasks, resp >>

NextPhone ==
  \/ call_detect_provider
  \/ Reply
  \/ \E u \in OrderingBuyers, items \in OrderItemChoices : create_order(u, items)
  \/ \E o \in OrderIdInputs, u \in Buyers, out \in {"ok", "api_error", "auth_error"} :
       initiate_payment_route(o, call.args[1], u, out)

SpecPhone == InitPhone /\ [][NextPhone]_vars

\* the ten national digits of a number that passed validation
NationalDigits(phone_number) ==
  LET cleaned == validate_ivorian_phone(phone_number).cleaned
  IN SubSeq(cleaned, 5, Len(cleaned))

\* resolution by prefix: the four-digit tables first, then the two-digit ranges
ResolvesByPrefix(number) ==
  LET first_four == SubSeq(number, 1, 4)
      first_two == SubSeq(number, 1, 2)
  IN IF first_four \in orange_prefixes THEN "orange_money"
     ELSE IF first_four \in mtn_prefixes THEN "mtn_money"
     ELSE IF first_four \in moov_prefixes THEN "moov_money"
     ELSE IF first_two = <<"0", "7">> THEN "orange_money"
     ELSE IF first_two \in {<<"0", "4">>, <<"0", "5">>, <<"0", "6">>} THEN "mtn_money"
     ELSE IF first_two \in {<<"0", "1">>, <<"0", "2">>, <<"0", "3">>} THEN "moov_money"
     ELSE "none"

\* C13: for every valid +225 number detect_provider resolves by prefix, the
\* exact four-digit tables before the two-digit ranges, and returns None when
\* neither matches (00, 08, 09); +2250707123456 is orange_money,
\* +2250504123456 is mtn_money and +2250101123456 is moov_money.
C13_ResolvesByPrefix ==
  (call.fn = "detect_provider" /\ call.done) =>
    /\ validate_ivorian_phone(call.args[1]).ok
         => /\ call.result = ResolvesByPrefix(NationalDigits(call.args[1]))
            /\ call.result = "none"
                 <=> SubSeq(NationalDigits(call.args[1]), 1, 2)
                       \in {<<"0", "0">>, <<"0", "8">>, <<"0", "9">>}
    /\ call.args[1] = PhoneOfPrefix(<<"0", "7", "0", "7">>) => call.result = "orange_money"
    /\ call.args[1] = PhoneOfPrefix(<<"0", "5", "0", "4">>) => call.result = "mtn_money"
    /\ call.args[1] = PhoneOfPrefix(<<"0", "1", "0", "1">>) => call.result = "moov_money"

\* a number of the Orange table inside the MTN range was resolved
C13_Witness ==
  /\ call.fn = "detect_provider"
  /\ call.done
  /\ call.args[1] = PhoneOfPrefix(<<"0", "5", "0", "5">>)
  /\ call.result = "orange_money"

\* a number with a country code other than 225, a length other than 225 plus
\* ten digits, or a character that is no digit (separators and a leading +
\* set aside)
Malformed(phone_number) ==
  LET stripped == SelectSeq(phone_number, LAMBDA c : c \notin {" ", "-", "(", ")"})
      digits == IF stripped # << >> /\ Head(stripped) = "+" THEN Tail(stripped) ELSE stripped
  IN \/ ~StartsWith(digits, <<"2", "2", "5">>)
     \/ Len(digits) # 13
     \/ \E i \in Idx(digits) : digits[i] \notin Digits

\* a number no payment can be initiated with
Unresolvable(phone_number) ==
  \/ Malformed(phone_number)
  \/ /\ validate_ivorian_phone(phone_number).ok
     /\ ResolvesByPrefix(NationalDigits(phone_number)) = "none"

\* C14: a malformed number fails validate_ivorian_phone and detect_provider
\* returns None for it; initiate_payment with a malformed number, or with a
\* valid number that resolves to no provider, fails, stores no Payment and
\* starts nothing at a gateway; no stored Payment has a provider that was not
\* detected from its number.
C14_UnresolvableNumberCreatesNothing ==
  [][/\ (call'.done /\ Malformed(call.args[1]))
          => /\ ~validate_ivorian_phone(call.args[1]).ok
             /\ call'.result = "none"
     /\ (resp = NoResp /\ resp'.op = "initiate_payment" /\ Unresolvable(call.args[1]))
          => /\ ~resp'.ok
             /\ payments' = payments
             /\ tasks' = tasks
     /\ \A i \in Idx(payments') :
          /\ payments'[i].provider \in Providers
          /\ payments'[i].provider = ResolvesByPrefix(NationalDigits(call.args[1]))]_vars

\* the buyer of a pending order submitted a number that is one digit short
C14_Witness ==
  /\ call.args = <<PhoneTooShort>>
  /\ resp.op = "initiate_payment"
  /\ resp.msg = "invalid_phone"
  /\ ~resp.ok
  /\ orders # << >>
  /\ payments = << >>

\* ============================================== get_valid_next_statuses
\* the roles a caller can present: the two registered roles, admin, and
\* strings that are no role
RoleArgs ==
  {"buyer", "merchant", "admin", "customer", "seller", "BUYER", "Merchant", "guest", "system", ""}

InitNextStatuses ==
  /\ mode = "PRODUCTION"
  /\ EmptyDatabase
  /\ paycap = 0
  /\ call \in { [fn |-> "get_valid_next_statuses", args |-> <<c, r>>,
                 done |-> FALSE, result |-> << >>] :
               c \in StatusArgs, r \in RoleArgs }

call_get_valid_next_statuses ==
  /\ call.fn = "get_valid_next_statuses"
  /\ ~call.done
  /\ call' = [call EXCEPT !.done = TRUE,
                          !.result = get_valid_next_statuses(call.args[1], call.args[2])]
  /\ UNCHANGED << mode, paycap, inflight, now, stock, orders, payments, refunds, tasks, resp >>

NextNextStatuses == call_get_valid_next_statuses

SpecNextStatuses == InitNextStatuses /\ [][NextNextStatuses]_vars

\* an order of buyer b1 at merchant m1's shop, in the given status
OrderInStatus(status) == [status |-> status, user_id |-> "b1", merchant_id |-> "m1"]

\* the users who own the order in the given role
OwnersInRole(order, user_role) ==
  { u \in Users : IF user_role = "buyer" THEN order.user_id = u
                  ELSE IF user_role = "merchant" THEN OwnsAsMerchant(order, u)
                  ELSE TRUE }

\* C15: for every current status and every role, get_valid_next_statuses is
\* exactly the set of targets for which can_user_change_status accepts the
\* transition when an actor of that role who owns the order requests it.
C15_ProjectionOfAuthorisation ==
  (call.fn = "get_valid_next_statuses" /\ call.done) =>
    LET order == OrderInStatus(call.args[1])
        user_role == call.args[2]
    IN /\ OwnersInRole(order, user_role) # {}
       /\ \A u \in OwnersInRole(order, user_role), t \in StatusArgs :
            t \in SeqRange(call.result)
              <=> can_user_change_status(order, t, u, user_role).ok

\* the buyer of a confirmed order is offered nothing
C15_Witness ==
  /\ call.fn = "get_valid_next_statuses"
  /\ call.done
  /\ call.args = <<"confirmed", "buyer">>
  /\ call.result = << >>
  /\ ~can_user_change_status(OrderInStatus("confirmed"), "cancelled", "b1", "buyer").ok

\* C16: a rejected transition out of delivered or cancelled carries the final
\* state reason; a rejected transition out of pending, confirmed or shipped
\* carries the cannot-transition reason, the one that lists the valid targets.
C16_TwoKindsOfRejection ==
  (call.fn = "validate_status_transition" /\ call.done /\ ~call.result.ok) =>
    /\ call.args[1] \in {"delivered", "cancelled"} => call.result.msg = "final_state"
    /\ call.args[1] \in {"pending", "confirmed", "shipped"}
         => /\ call.result.msg = "cannot_transition"
            /\ STATUS_TRANSITIONS[call.args[1]] # << >>

\* a delivered order was asked to go back to pending
C16_Witness ==
  /\ call.fn = "validate_status_transition"
  /\ call.done
  /\ call.args = <<"delivered", "pending">>
  /\ call.result = [ok |-> FALSE, msg |-> "final_state"]

\* C17: Order.status is mutated only through the state machine: whichever
\* operation takes a step, an order whose stored status changes goes along one
\* of the five adjacency pairs, and no order is deleted.
C17_StatusChangesAlongAdjacency ==
  [][/\ Len(orders') >= Len(orders)
     /\ \A i \in Idx(orders) :
          /\ orders'[i]._id = orders[i]._id
          /\ orders'[i].status # orders[i].status
               => <<orders[i].status, orders'[i].status>> \in AdjacencyPairs]_vars

\* C18: in every reachable state each order has at most one Payment whose
\* status is pending or processing.
C18_OneOpenPaymentPerOrder ==
  \A i \in Idx(payments), j \in Idx(payments) :
    (/\ payments[i].order_id = payments[j].order_id
     /\ payments[i].status \in {"pending", "processing"}
     /\ payments[j].status \in {"pending", "processing"})
      => i = j

\* ================================================== concurrent requests
\* The handlers are coroutines: the event loop may run another request at
\* every await.  A step is one database operation (or the gateway call with
\* the write of its answer) and the synchronous code that follows it.

\* the coroutine of request r is suspended at pc
Suspended(r, op, pc, args, locals, doc) ==
  inflight' = [inflight EXCEPT ![r] = [op |-> op, pc |-> pc, args |-> args, locals |-> locals,
                                       doc |-> doc, result |-> NoResp]]

\* the coroutine of request r has its response
Returned(r, op, ok, msg, ref) ==
  inflight' = [inflight EXCEPT ![r].op = op, ![r].pc = "done",
                               ![r].result = Resp(op, ok, msg, ref)]

\* the response leaves; the worker takes another request
respond(r) ==
  /\ resp = NoResp
  /\ inflight[r].pc = "done"
  /\ inflight' = [inflight EXCEPT ![r] = IdleRequest]
  /\ UNCHANGED << mode, paycap, call, now, stock, orders, payments, refunds, tasks, resp >>

\* POST /payments/initiate: db.orders.find_one, the route's checks, and
\* initiate_payment down to its find_one on db.payments
initiate_payment_begin(r, order_id, phone_number, user_id) ==
  LET k == OrderAt(ObjectId(order_id))
      v == validate_ivorian_phone(phone_number)
      provider == detect_provider(v.cleaned)
  IN
  /\ resp = NoResp
  /\ inflight[r].pc = "idle"
  /\ IF k = 0 THEN Returned(r, "initiate_payment", FALSE, "order_not_found", NoId)
     ELSE IF orders[k].user_id # user_id
       THEN Returned(r, "initiate_payment", FALSE, "not_your_order", NoId)
     ELSE IF orders[k].status # "pending"
       THEN Returned(r, "initiate_payment", FALSE, "order_not_pending", NoId)
     ELSE IF ~v.ok THEN Returned(r, "initiate_payment", FALSE, "invalid_phone", NoId)
     ELSE IF provider = "none" THEN Returned(r, "initiate_payment", FALSE, "no_provider", NoId)
     ELSE Suspended(r, "initiate_payment", "find_existing",
                    <<order_id, phone_number, user_id>>,
                    [merchant_id |-> orders[k].merchant_id, amount |-> orders[k].total_amount,
                     cleaned_phone |-> v.cleaned, provider |-> provider],
                    NoId)
  /\ UNCHANGED << mode, paycap, call, now, stock, orders, payments, refunds, tasks, resp >>

\* initiate_payment: existing_payment = await db.payments.find_one(...) and
\* the expiry check
initiate_payment_find_existing(r) ==
  LET e == ExistingPayment(inflight[r].args[1]) IN
  /\ resp = NoResp
  /\ inflight[r].op = "initiate_payment"
  /\ inflight[r].pc = "find_existing"
  /\ IF e # 0 /\ payments[e].expires_at > now
       THEN Returned(r, "initiate_payment", FALSE, "pending_exists", payments[e].payment_id)
       ELSE inflight' = [inflight EXCEPT ![r].pc = "insert_payment"]
  /\ UNCHANGED << mode, paycap, call, now, stock, orders, payments, refunds, tasks, resp >>

\* initiate_payment: the Payment is built and await db.payments.insert_one
initiate_payment_insert(r) ==
  LET me == inflight[r]
      payment_id == Len(payments) + 1
  IN
  /\ resp = NoResp
  /\ me.op = "initiate_payment"
  /\ me.pc = "insert_payment"
  /\ Len(payments) < paycap
  /\ payments' = Append(payments, Payment(payment_id, me.args[1], me.args[3],
                                          me.locals.merchant_id, me.locals.amount,
                                          me.locals.provider))
  /\ inflight' = [inflight EXCEPT ![r].pc = "call_provider", ![r].doc = payment_id]
  /\ UNCHANGED << mode, paycap, call, now, stock, orders, refunds, tasks, resp >>

\* initiate_payment: await self._call_provider and the update_one that
\* stores its answer
initiate_payment_call_provider(r, outcome) ==
  LET me == inflight[r]
      k == PaymentAt(me.doc)
      schedule == SimulationSchedule(me.locals.cleaned_phone)
  IN
  /\ resp = NoResp
  /\ me.op = "initiate_payment"
  /\ me.pc = "call_provider"
  /\ outcome \in GatewayOutcomes(me.locals.provider)
  /\ IF outcome = "auth_error"
       THEN /\ Returned(r, "initiate_payment", FALSE, "unhandled_exception", NoId)
            /\ UNCHANGED << payments, tasks >>
     ELSE IF outcome = "api_error"
       THEN /\ payments' = [payments EXCEPT ![k].status = "failed", ![k].failure_reason = TRUE]
            /\ Returned(r, "initiate_payment", FALSE, "provider_failed", me.doc)
            /\ UNCHANGED tasks
     ELSE /\ payments' = [payments EXCEPT ![k].transaction_id = me.doc, ![k].status = "pending"]
          /\ tasks' = IF mode = "SIMULATION" /\ schedule # "none"
                        THEN tasks \cup {[payment_id |-> me.doc, kind |-> schedule]}
                        ELSE tasks
          /\ Returned(r, "initiate_payment", TRUE, "initiated", me.doc)
  /\ UNCHANGED << mode, paycap, call, now, stock, orders, refunds, resp >>

\* refund_payment: db.payments.find_one and the checks on the payment and the
\* amount, down to the find_one on db.refunds
refund_payment_begin(r, payment_id, amount_arg, merchant_id) ==
  LET k == PaymentAt(payment_id) IN
  /\ resp = NoResp
  /\ inflight[r].pc = "idle"
  /\ IF k = 0 THEN Returned(r, "refund_payment", FALSE, "payment_not_found", NoId)
     ELSE LET payment == payments[k]
              amount == IF amount_arg.none THEN payment.amount ELSE amount_arg.v
          IN IF payment.merchant_id # merchant_id
               THEN Returned(r, "refund_payment", FALSE, "only_merchant", NoId)
             ELSE IF payment.status # "completed"
               THEN Returned(r, "refund_payment", FALSE, "not_completed", NoId)
             ELSE IF verify_refund_amount(amount, payment) # "none"
               THEN Returned(r, "refund_payment", FALSE, verify_refund_amount(amount, payment), NoId)
             ELSE Suspended(r, "refund_payment", "find_existing",
                            <<payment_id, amount_arg, merchant_id>>,
                            [payment |-> payment, amount |-> amount], NoId)
  /\ UNCHANGED << mode, paycap, call, now, stock, orders, payments, refunds, tasks, resp >>

\* refund_payment: existing_refund = await db.refunds.find_one(...)
refund_payment_find_existing(r) ==
  LET e == ExistingRefund(inflight[r].args[1]) IN
  /\ resp = NoResp
  /\ inflight[r].op = "refund_payment"
  /\ inflight[r].pc = "find_existing"
  /\ IF e # 0
       THEN Returned(r, "refund_payment", FALSE, "refund_exists", refunds[e].refund_id)
       ELSE inflight' = [inflight EXCEPT ![r].pc = "insert_refund"]
  /\ UNCHANGED << mode, paycap, call, now, stock, orders, payments, refunds, tasks, resp >>

\* refund_payment: the Refund is built (status pending) and
\* await db.refunds.insert_one
refund_payment_insert(r) ==
  LET me == inflight[r]
      refund_id == Len(refunds) + 1
  IN
  /\ resp = NoResp
  /\ me.op = "refund_payment"
  /\ me.pc = "insert_refund"
  /\ Len(refunds) < MaxRequests
  /\ refunds' = Append(refunds, [ refund_id |-> refund_id,
                                  payment_id |-> me.args[1],
                                  order_id |-> me.locals.payment.order_id,
                                  merchant_id |-> me.args[3],
                                  amount |-> me.locals.amount,
                                  status |-> "pending" ])
  /\ inflight' = [inflight EXCEPT ![r].pc = "call_provider_refund", ![r].doc = refund_id]
  /\ UNCHANGED << mode, paycap, call, now, stock, orders, payments, tasks, resp >>

\* db.refunds.find_one({"refund_id": refund_id})
RefundAt(refund_id) == FirstIdx(refunds, LAMBDA f : f.refund_id = refund_id)

\* refund_payment: the provider's answer and the update_one that marks the
\* Refund failed or completed
refund_payment_call_provider(r) ==
  LET me == inflight[r]
      f == RefundAt(me.doc)
      provider_ok == IF mode = "SIMULATION" THEN TRUE
                     ELSE call_provider_refund(me.locals.payment.provider)
  IN
  /\ resp = NoResp
  /\ me.op = "refund_payment"
  /\ me.pc = "call_provider_refund"
  /\ IF ~provider_ok
       THEN /\ refunds' = [refunds EXCEPT ![f].status = "failed"]
            /\ Returned(r, "refund_payment", FALSE, "provider_refund_failed", me.doc)
       ELSE /\ refunds' = [refunds EXCEPT ![f].status = "completed"]
            /\ inflight' = [inflight EXCEPT ![r].pc = "update_payment"]
  /\ UNCHANGED << mode, paycap, call, now, stock, orders, payments, tasks, resp >>

\* refund_payment: the update_one on db.payments (refunded) and on db.orders
\* (cancelled)
refund_payment_update_payment(r) ==
  LET me == inflight[r]
      k == PaymentAt(me.args[1])
      o == OrderAt(ObjectId(me.locals.payment.order_id))
  IN
  /\ resp = NoResp
  /\ me.op = "refund_payment"
  /\ me.pc = "update_payment"
  /\ payments' = IF k = 0 THEN payments ELSE [payments EXCEPT ![k].status = "refunded"]
  /\ orders' = IF o = 0 THEN orders
               ELSE [orders EXCEPT
                       ![o].status = "cancelled",
                       ![o].payment_status = "refunded",
                       ![o].status_history =
                          Append(@, [status |-> "cancelled", changed_by |-> me.args[3]])]
  /\ Returned(r, "refund_payment", TRUE, "refunded", me.doc)
  /\ UNCHANGED << mode, paycap, call, now, stock, refunds, tasks, resp >>

\* two workers, room for one payment and one refund per worker
InitConcurrent == InitWith(MaxRequests)

\* what the concurrent requests carry: a number that resolves and one that
\* does not; a full and a partial refund
ConcurrentPhoneInputs == {PhoneOrangeSpaced, PhoneNoProvider}
ConcurrentRefundAmounts == {NoneAmount, Amount(3)}

NextConcurrent ==
  \/ Reply
  \/ \E u \in OrderingBuyers, items \in OrderItemChoices : create_order(u, items)
  \/ \E ref \in PaymentIdInputs : process_webhook("orange_money", ref, "success", TRUE)
  \/ \E r \in Requests, o \in OrderIdInputs, ph \in ConcurrentPhoneInputs, u \in OrderingBuyers :
       initiate_payment_begin(r, o, ph, u)
  \/ \E r \in Requests : initiate_payment_find_existing(r)
  \/ \E r \in Requests : initiate_payment_insert(r)
  \/ \E r \in Requests, out \in {"ok", "api_error", "auth_error"} :
       initiate_payment_call_provider(r, out)
  \/ \E r \in Requests, p \in PaymentIdInputs, a \in ConcurrentRefundAmounts :
       refund_payment_begin(r, p, a, "m1")
  \/ \E r \in Requests : refund_payment_find_existing(r)
  \/ \E r \in Requests : refund_payment_insert(r)
  \/ \E r \in Requests : refund_payment_call_provider(r)
  \/ \E r \in Requests : refund_payment_update_payment(r)
  \/ \E r \in Requests : respond(r)

SpecConcurrent == InitConcurrent /\ [][NextConcurrent]_vars

\* C19: the existing-payment check and the insertion of initiate_payment are
\* atomic per order: of two requests for the same order that are served
\* concurrently at most one creates a Payment.  No request inserts a Payment
\* for an order while another request, still being served, has inserted one
\* for that order.
C19_AtomicCheckThenCreate ==
  [][\A r \in Requests, q \in Requests :
       ~ /\ r # q
         /\ inflight[r].op = "initiate_payment"
         /\ inflight[r].pc = "insert_payment"
         /\ inflight'[r].pc = "call_provider"
         /\ inflight[q].op = "initiate_payment"
         /\ inflight[q].pc = "call_provider"
         /\ inflight[q].args[1] = inflight[r].args[1]]_vars

\* C20: in every reachable state each payment has at most one Refund whose
\* status is not failed, also while refund requests are served concurrently.
C20_OneLiveRefundPerPayment ==
  \A i \in Idx(refunds), j \in Idx(refunds) :
    (/\ refunds[i].payment_id = refunds[j].payment_id
     /\ refunds[i].status # "failed"
     /\ refunds[j].status # "failed")
      => i = j

\* ------------------------------------- concurrent update_order_status
\* PATCH /orders/{id}/status: order = await db.orders.find_one(...), the
\* permission check on the order that was read, and the tracking number check
update_order_status_begin(r, order_id, new_status, user_id, tracking_number) ==
  LET k == OrderAt(ObjectId(order_id)) IN
  /\ resp = NoResp
  /\ inflight[r].pc = "idle"
  /\ IF k = 0 THEN Returned(r, "update_order_status", FALSE, "order_not_found", NoId)
     ELSE LET can == can_user_change_status(orders[k], new_status, user_id, RoleOf(user_id)) IN
          IF ~can.ok THEN Returned(r, "update_order_status", FALSE, can.msg, NoId)
          ELSE IF new_status = "shipped" /\ tracking_number = "none"
            THEN Returned(r, "update_order_status", FALSE, "tracking_required", NoId)
          ELSE Suspended(r, "update_order_status", "update_one",
                         <<order_id, new_status, user_id, tracking_number>>,
                         [order |-> orders[k]], NoId)
  /\ UNCHANGED << mode, paycap, call, now, stock, orders, payments, refunds, tasks, resp >>

\* await db.orders.update_one({"_id": ...}, {"$set": ..., "$push": ...}): the
\* filter is the _id alone, the update is applied to the order as it is stored
update_order_status_update_one(r) ==
  LET a == inflight[r].args
      k == OrderAt(ObjectId(a[1]))
  IN
  /\ resp = NoResp
  /\ inflight[r].op = "update_order_status"
  /\ inflight[r].pc = "update_one"
  /\ k # 0
  /\ Len(orders[k].status_history) < MaxHistory
  /\ orders' = [orders EXCEPT ![k] = StatusUpdate(orders[k], a[2], a[3], a[4], "none")]
  /\ inflight' = [inflight EXCEPT ![r].pc = "side_effects"]
  /\ UNCHANGED << mode, paycap, call, now, stock, payments, refunds, tasks, resp >>

\* the side effects and the response: restore_product_stock(order, db) of the
\* order that was read when the new status is cancelled, then the last find_one
update_order_status_side_effects(r) ==
  /\ resp = NoResp
  /\ inflight[r].op = "update_order_status"
  /\ inflight[r].pc = "side_effects"
  /\ stock' = IF inflight[r].args[2] = "cancelled"
                THEN restore_product_stock(inflight[r].locals.order, stock)
                ELSE stock
  /\ Returned(r, "update_order_status", TRUE, inflight[r].args[2], NoId)
  /\ UNCHANGED << mode, paycap, call, now, orders, payments, refunds, tasks, resp >>

NextConcurrentOrders ==
  \/ Reply
  \/ \E u \in OrderingBuyers, items \in OrderItemChoices : create_order(u, items)
  \/ \E r \in Requests, o \in OrderIdInputs, q \in StatusRequests, u \in Users :
       update_order_status_begin(r, o, q[1], u, q[2])
  \/ \E r \in Requests : update_order_status_update_one(r)
  \/ \E r \in Requests : update_order_status_side_effects(r)
  \/ \E r \in Requests : respond(r)

SpecConcurrentOrders == InitConcurrent /\ [][NextConcurrentOrders]_vars

\* C21: the check and the status write of update_order_status are one atomic
\* read-modify-write per order: whenever a request writes its new status, the
\* change is one the caller may make from the status stored at that moment.
C21_WriteValidatedAgainstStoredStatus ==
  [][\A r \in Requests :
       (/\ inflight[r].op = "update_order_status"
        /\ inflight[r].pc = "update_one"
        /\ inflight'[r].pc = "side_effects")
         => LET a == inflight[r].args
                k == OrderAt(ObjectId(a[1]))
            IN can_user_change_status(orders[k], a[2], a[3], RoleOf(a[3])).ok]_vars

\* C22: status_history tracks the status: every order has at least its
\* creation entry and the status of the last entry equals Order.status.
C22_HistoryTracksStatus ==
  \A i \in Idx(orders) :
    /\ orders[i].status_history # << >>
    /\ orders[i].status_history[Len(orders[i].status_history)].status = orders[i].status

\* C23: shipping requires a tracking number.  A request that is refused for
\* its missing tracking number changes no order and no stock; and after every
\* step each order in status shipped has a tracking number and a shipped_at.
C23_ShippedHasTrackingNumber ==
  [][/\ (resp' = Resp("update_order_status", FALSE, "tracking_required", NoId))
          => (orders' = orders /\ stock' = stock)
     /\ \A i \in Idx(orders') :
          orders'[i].status = "shipped"
            => (orders'[i].tracking_number # "none" /\ orders'[i].shipped_at)]_vars

\* a merchant's shipped request with a tracking number has just succeeded
C23_Witness ==
  /\ resp = Resp("update_order_status", TRUE, "shipped", NoId)
  /\ \E i \in Idx(orders) :
       /\ orders[i].status = "shipped"
       /\ orders[i].tracking_number = "TRK"
       /\ orders[i].shipped_at

\* the signature verifies for the named provider: the name is one of the
\* providers and the signature is the HMAC of the body under its secret
SignatureVerifies(provider, hmac_matches) == provider \in Providers /\ hmac_matches

\* C24: in SANDBOX and PRODUCTION mode a webhook whose signature does not
\* verify for the named provider, an unknown provider name included, is
\* rejected as an invalid signature and changes no Payment and no Order.
C24_BadSignatureRejected ==
  [][(mode # "SIMULATION" /\ resp = NoResp /\ resp'.op = "process_webhook")
       => \A w \in {x \in WebhookSenders : ~SignatureVerifies(x[1], x[2])},
             ref \in TransactionRefInputs, st \in WebhookStatusInputs :
            process_webhook(w[1], ref, st, w[2])
              => /\ resp' = Resp("process_webhook", FALSE, "invalid_signature", NoId)
                 /\ payments' = payments
                 /\ orders' = orders]_vars

\* a webhook naming a pending payment's transaction was just refused for its
\* signature, outside SIMULATION
C24_Witness ==
  /\ mode \in {"SANDBOX", "PRODUCTION"}
  /\ resp = Resp("process_webhook", FALSE, "invalid_signature", NoId)
  /\ \E i \in Idx(payments) :
       payments[i].transaction_id # NoTxn /\ payments[i].status = "pending"

\* C25: a webhook is applied only to the Payment whose stored transaction_id
\* equals the payload's reference.  A verified webhook that carries no
\* reference, or a reference no stored payment has, is rejected as not found
\* and changes no Payment and no Order.
C25_WebhookOnlyByStoredReference ==
  [][(resp = NoResp /\ resp'.op = "process_webhook")
       => \A w \in {x \in WebhookSenders : verify_webhook_signature(x[1], x[2])},
             ref \in TransactionRefInputs, st \in WebhookStatusInputs :
            (/\ ref = NoTxn \/ \A i \in Idx(payments) : payments[i].transaction_id # ref
             /\ process_webhook(w[1], ref, st, w[2]))
              => /\ resp' = Resp("process_webhook", FALSE, "payment_not_found", NoId)
                 /\ payments' = payments
                 /\ orders' = orders]_vars

\* --------------------------------------- a failed payment and the retry
\* what the provider reports in these runs: still pending, or failed
RetryWebhookStatuses == {"pending", "failed"}

\* the buyer pays one order while the provider reports by webhook, with room
\* for MaxPaymentsPerOrder payments, all within one timeout period
NextRetry ==
  \/ Reply
  \/ \E u \in OrderingBuyers, items \in OrderItemChoices : create_order(u, items)
  \/ \E o \in OrderIdInputs, ph \in PhoneInputs, u \in Buyers,
        out \in {"ok", "api_error", "auth_error"} :
       initiate_payment_route(o, ph, u, out)
  \/ \E w \in WebhookSenders, ref \in TransactionRefInputs, st \in RetryWebhookStatuses :
       process_webhook(w[1], ref, st, w[2])

SpecRetry == InitInitiate /\ [][NextRetry]_vars

\* the order has a payment and none of its payments is pending or processing
NoOpenPayment(order_id) ==
  /\ \E i \in Idx(payments) : payments[i].order_id = order_id
  /\ \A i \in Idx(payments) :
       payments[i].order_id = order_id => payments[i].status \notin {"pending", "processing"}

\* C26: a failed-status webhook for a pending or processing payment sets the
\* Payment to failed with a failure_reason and the order's payment_status to
\* failed, and leaves Order.status, status_history and the stock unchanged.
\* It does not block a retry: when the order is still pending, its
\* payment_status is failed and none of its payments is open, the buyer's next
\* initiate_payment with a number that resolves to a provider creates a Payment.
C26_FailedWebhookAllowsRetry ==
  [][/\ (/\ resp = NoResp
         /\ resp' = Resp("process_webhook", TRUE, "failed", resp'.ref)
         /\ payments[PaymentAt(resp'.ref)].status \in {"pending", "processing"})
          => LET k == PaymentAt(resp'.ref)
                 o == OrderAt(ObjectId(payments[k].order_id))
             IN /\ payments'[k].status = "failed"
                /\ payments'[k].failure_reason
                /\ orders'[o].payment_status = "failed"
                /\ orders'[o].status = orders[o].status
                /\ orders'[o].status_history = orders[o].status_history
                /\ stock' = stock
     /\ (resp = NoResp /\ resp'.op = "initiate_payment")
          => \A o \in Idx(orders), ph \in {PhoneMagicSuccess, PhoneOrangeSpaced},
                out \in {"ok", "api_error", "auth_error"} :
               (/\ orders[o].status = "pending"
                /\ orders[o].payment_status = "failed"
                /\ NoOpenPayment(o)
                /\ initiate_payment_route(o, ph, orders[o].user_id, out))
                 => /\ Len(payments') = Len(payments) + 1
                    /\ payments'[Len(payments')].order_id = o]_vars

\* the retry: the order's first payment failed by webhook, the order is still
\* pending, and a second payment has just been initiated for it
C26_Witness ==
  /\ resp = Resp("initiate_payment", TRUE, "initiated", 2)
  /\ Len(payments) = 2
  /\ payments[1].status = "failed"
  /\ payments[1].transaction_id # NoTxn
  /\ payments[2].order_id = payments[1].order_id
  /\ \E o \in Idx(orders) : orders[o].status = "pending" /\ orders[o].payment_status = "failed"

\* ------------------------------------- check_payment_status, step by step
\* GET /payments/{payment_id}/status: payment = await db.payments.find_one,
\* the authorization check, the early return for a completed, failed,
\* cancelled or refunded payment, and the choice of what to await next
check_payment_status_begin(r, payment_id, user_id) ==
  LET k == PaymentAt(payment_id) IN
  /\ resp = NoResp
  /\ inflight[r].pc = "idle"
  /\ IF k = 0 THEN Returned(r, "check_payment_status", FALSE, "payment_not_found", NoId)
     ELSE LET payment == payments[k] IN
       IF payment.user_id # user_id /\ payment.merchant_id # user_id
         THEN Returned(r, "check_payment_status", FALSE, "unauthorized", NoId)
       ELSE IF payment.status \in {"completed", "failed", "cancelled", "refunded"}
         THEN Returned(r, "check_payment_status", TRUE, payment.status, payment_id)
       ELSE IF payment.expires_at # NoTime /\ payment.expires_at < now
         THEN Suspended(r, "check_payment_status", "update_expired",
                        <<payment_id, user_id>>, [payment |-> payment], NoId)
       ELSE IF payment.status \in {"pending", "processing"} /\ payment.transaction_id # NoTxn
         THEN Suspended(r, "check_payment_status", "check_provider",
                        <<payment_id, user_id>>, [payment |-> payment], NoId)
       ELSE Returned(r, "check_payment_status", TRUE, payment.status, payment_id)
  /\ UNCHANGED << mode, paycap, call, now, stock, orders, payments, refunds, tasks, resp >>

\* an expiry that is reported to the caller but not stored
check_payment_status_update_expired_NotStored(r) ==
  /\ resp = NoResp
  /\ inflight[r].op = "check_payment_status"
  /\ inflight[r].pc = "update_expired"
  /\ Returned(r, "check_payment_status", TRUE, "expired", inflight[r].args[1])
  /\ UNCHANGED << mode, paycap, call, now, stock, orders, payments, refunds, tasks, resp >>

\* await db.payments.update_one(..., {"$set": {"status": EXPIRED, ...}})
check_payment_status_update_expired(r) ==
  LET k == PaymentAt(inflight[r].args[1]) IN
  /\ resp = NoResp
  /\ inflight[r].op = "check_payment_status"
  /\ inflight[r].pc = "update_expired"
  /\ payments' = [payments EXCEPT ![k].status = "expired", ![k].failure_reason = TRUE]
  /\ Returned(r, "check_payment_status", TRUE, "expired", inflight[r].args[1])
  /\ UNCHANGED << mode, paycap, call, now, stock, orders, refunds, tasks, resp >>

\* provider_status = await self._check_provider_status(...) and the update
\* when the answer differs from the status that was read
check_payment_status_check_provider(r, answer) ==
  LET payment_id == inflight[r].args[1]
      k == PaymentAt(payment_id)
      payment == inflight[r].locals.payment
  IN
  /\ resp = NoResp
  /\ inflight[r].op = "check_payment_status"
  /\ inflight[r].pc = "check_provider"
  /\ answer \in ProviderStatusAnswers(payment.provider)
  /\ IF answer = "auth_error"
       THEN /\ Returned(r, "check_payment_status", FALSE, "unhandled_exception", NoId)
            /\ UNCHANGED payments
     ELSE IF answer = "api_error" \/ answer = payment.status
       THEN /\ Returned(r, "check_payment_status", TRUE, payment.status, payment_id)
            /\ UNCHANGED payments
     ELSE /\ payments' =
               [payments EXCEPT
                  ![k].status = answer,
                  ![k].completed_at = IF answer = "completed" THEN now ELSE @,
                  ![k].failure_reason = IF answer = "failed" THEN TRUE ELSE @]
          /\ Returned(r, "check_payment_status", TRUE, answer, payment_id)
  /\ UNCHANGED << mode, paycap, call, now, stock, orders, refunds, tasks, resp >>

\* polling one payment: the buyer initiates it, the callers poll, time passes.
\* A payment is initiated only while its expiry lies within the modelled time.
NextPoll ==
  \/ Tick
  \/ Reply
  \/ \E u \in OrderingBuyers, items \in OrderItemChoices : create_order(u, items)
  \/ /\ now + TimeoutTicks < MaxTime
     /\ \E o \in OrderIdInputs, ph \in PhoneInputs, u \in Buyers,
           out \in {"ok", "api_error", "auth_error"} :
          initiate_payment_route(o, ph, u, out)
  \/ \E r \in Requests, p \in PaymentIdInputs, u \in PaymentCallers :
       check_payment_status_begin(r, p, u)
  \/ \E r \in Requests : check_payment_status_update_expired(r)
  \/ \E r \in Requests,
        a \in {"completed", "pending", "failed", "cancelled", "api_error", "auth_error"} :
       check_payment_status_check_provider(r, a)
  \/ \E r \in Requests : respond(r)

SpecPoll == Init /\ [][NextPoll]_vars

\* C27: check_payment_status on a Payment in a terminal status (completed,
\* failed, cancelled, refunded or expired) returns the stored record as it is:
\* the handler goes on neither to a write of the Payment nor to the provider,
\* and its step changes no Payment and no Order; a caller who is neither the
\* buyer nor the merchant of the payment is refused at once.
C27_TerminalReturnedAsIs ==
  [][\A r \in Requests :
       (/\ inflight[r].pc = "idle"
        /\ inflight'[r].op = "check_payment_status"
        /\ inflight'[r].pc \in {"update_expired", "check_provider"})
         => LET payment == payments[PaymentAt(inflight'[r].args[1])] IN
            /\ payment.status \notin TerminalPaymentStatuses
            /\ inflight'[r].args[2] \in {payment.user_id, payment.merchant_id}]_vars

\* polling under fairness: time advances, every response is delivered, every
\* suspended handler is resumed, and each payment's buyer keeps polling it.
\* A request is taken only between two responses, so an action that is enabled
\* again and again must eventually be taken (strong fairness).
PollFairness ==
  /\ SF_vars(Tick)
  /\ WF_vars(Reply)
  /\ \A r \in Requests :
       /\ SF_vars(respond(r))
       /\ SF_vars(check_payment_status_update_expired(r))
       /\ SF_vars(\E a \in {"completed", "pending", "failed", "cancelled",
                            "api_error", "auth_error"} :
                    check_payment_status_check_provider(r, a))
  /\ \A p \in 1..MaxPayments :
       SF_vars(\E r \in Requests, u \in OrderingBuyers : check_payment_status_begin(r, p, u))

SpecPollFair == SpecPoll /\ PollFairness

\* C28: a Payment still pending or processing after its expires_at is moved
\* to expired by the next check_payment_status, which does not go to the
\* provider for it; and when polls keep being issued and time advances every
\* Payment eventually has a status among completed, failed, cancelled,
\* refunded and expired.
C28_EveryPaymentEventuallyTerminal ==
  /\ [][\A r \in Requests :
          (/\ inflight[r].pc = "idle"
           /\ inflight'[r].op = "check_payment_status"
           /\ inflight'[r].pc # "idle"
           /\ inflight'[r].pc # "done"
           /\ LET payment == payments[PaymentAt(inflight'[r].args[1])] IN
              /\ payment.status \in {"pending", "processing"}
              /\ payment.expires_at < now)
            => inflight'[r].pc = "update_expired"]_vars
  /\ [][\A r \in Requests :
          (inflight[r].pc = "update_expired" /\ inflight'[r].pc = "done")
            => payments'[PaymentAt(inflight[r].args[1])].status = "expired"]_vars
  /\ \A p \in 1..MaxPayments :
       [](Len(payments) >= p
            => <>(Len(payments) >= p /\ payments[p].status \in TerminalPaymentStatuses))

\* a poll has just moved a payment, pending past its expiry, to expired
C28_Witness ==
  \E r \in Requests :
    /\ inflight[r].op = "check_payment_status"
    /\ inflight[r].pc = "done"
    /\ inflight[r].result = Resp("check_payment_status", TRUE, "expired", 1)
    /\ inflight[r].locals.payment.status \in {"pending", "processing"}
    /\ payments[1].status = "expired"
    /\ payments[1].expires_at < now

\* the caller is the buyer the payment belongs to and the payment is still
\* pending or processing
MayCancelPayment(payment_id, user_id) ==
  \E i \in Idx(payments) :
    /\ payments[i].payment_id = payment_id
    /\ payments[i].user_id = user_id
    /\ payments[i].status \in {"pending", "processing"}

\* C29: cancel_payment sets a Payment to cancelled only for the payment's own
\* buyer and only from pending or processing; for any other caller or status
\* it is rejected and the Payment is unchanged; the Order is never changed.
C29_OnlyOwnBuyerCancels ==
  [][(resp = NoResp /\ resp'.op = "cancel_payment")
       => \A p \in PaymentIdInputs, u \in PaymentCallers :
            cancel_payment(p, u)
              => /\ orders' = orders
                 /\ IF MayCancelPayment(p, u)
                      THEN /\ resp'.ok
                           /\ payments' = [payments EXCEPT ![PaymentAt(p)].status = "cancelled"]
                      ELSE /\ ~resp'.ok
                           /\ payments' = payments]_vars

\* the buyer has just cancelled a pending payment; the order is still pending
C29_Witness ==
  /\ resp = Resp("cancel_payment", TRUE, "cancelled", 1)
  /\ payments[1].status = "cancelled"
  /\ payments[1].user_id = "b1"
  /\ \E o \in Idx(orders) : orders[o].status = "pending"

\* C30: every failure of the provider during initiation comes back from the
\* gateway as success=false and is never raised to the caller: no
\* initiate_payment ends in an unhandled exception, and an initiation that
\* fails after its Payment was stored leaves that Payment failed with a
\* failure_reason, never pending.
C30_ProviderFailureMarksPaymentFailed ==
  [][(resp = NoResp /\ resp'.op = "initiate_payment" /\ ~resp'.ok)
       => /\ resp'.msg # "unhandled_exception"
          /\ Len(payments') > Len(payments)
               => /\ payments'[Len(payments')].status = "failed"
                  /\ payments'[Len(payments')].failure_reason]_vars

\* the operating mode is SIMULATION and the payment is pending or processing
MaySimulate(payment_id) ==
  /\ mode = "SIMULATION"
  /\ \E i \in Idx(payments) :
       payments[i].payment_id = payment_id /\ payments[i].status \in {"pending", "processing"}

\* C31: simulate-success and simulate-failure change state only in
\* SIMULATION mode and only for a pending or processing Payment; in SANDBOX
\* or PRODUCTION mode, or for a Payment in another status, they are rejected
\* and no Payment and no Order changes.
C31_SimulateOnlyInSimulation ==
  [][(resp = NoResp /\ resp'.op = "simulate_payment")
       => \A p \in PaymentIdInputs, b \in BOOLEAN :
            simulate_payment(p, b)
              => IF MaySimulate(p)
                   THEN /\ resp'.ok
                        /\ payments'[PaymentAt(p)].status = (IF b THEN "completed" ELSE "failed")
                   ELSE /\ ~resp'.ok
                        /\ payments' = payments
                        /\ orders' = orders]_vars

\* outside SIMULATION a simulate request for a pending payment was refused
C31_Witness ==
  /\ mode \in {"SANDBOX", "PRODUCTION"}
  /\ resp = Resp("simulate_payment", FALSE, "simulation_only", NoId)
  /\ \E i \in Idx(payments) : payments[i].status = "pending"

\* ------------------------------------ restore_product_stock under failures
\* a restore that gives up at the first line item whose update raises
RECURSIVE restore_product_stock_raising_StopAtFirst(_, _, _, _)
restore_product_stock_raising_StopAtFirst(items, i, st, raising) ==
  IF i > Len(items) \/ i \in raising THEN st
  ELSE restore_product_stock_raising_StopAtFirst(
         items, i + 1, [st EXCEPT ![items[i].product_id] = @ + items[i].quantity], raising)

\* OrderService.restore_product_stock, line item i onwards: each
\* db.products.update_one is in its own try / except Exception; raising is the
\* set of line items whose update raises (it is logged and the loop goes on)
RECURSIVE restore_product_stock_raising(_, _, _, _)
restore_product_stock_raising(items, i, st, raising) ==
  IF i > Len(items) THEN st
  ELSE restore_product_stock_raising(
         items, i + 1,
         IF i \in raising THEN st
         ELSE [st EXCEPT ![items[i].product_id] = @ + items[i].quantity],
         raising)

\* the side effects and the response of update_order_status when the updates
\* of the line items in raising fail during the restore
update_order_status_side_effects_raising(r, raising) ==
  LET me == inflight[r] IN
  /\ resp = NoResp
  /\ me.op = "update_order_status"
  /\ me.pc = "side_effects"
  /\ raising \subseteq Idx(me.locals.order.products)
  /\ me.args[2] # "cancelled" => raising = {}
  /\ stock' = IF me.args[2] = "cancelled"
                THEN restore_product_stock_raising(me.locals.order.products, 1, stock, raising)
                ELSE stock
  /\ inflight' = [inflight EXCEPT
                    ![r].pc = "done",
                    ![r].locals = [order |-> me.locals.order, raising |-> raising],
                    ![r].result = Resp("update_order_status", TRUE, me.args[2], NoId)]
  /\ UNCHANGED << mode, paycap, call, now, orders, payments, refunds, tasks, resp >>

\* the line items a failing database can refuse: any subset of three
LineItemPositions == 1..3

NextRestore ==
  \/ Reply
  \/ \E u \in OrderingBuyers, items \in OrderItemChoices : create_order(u, items)
  \/ \E r \in Requests, o \in OrderIdInputs, q \in StatusRequests, u \in Users :
       update_order_status_begin(r, o, q[1], u, q[2])
  \/ \E r \in Requests : update_order_status_update_one(r)
  \/ \E r \in Requests, raising \in SUBSET LineItemPositions :
       update_order_status_side_effects_raising(r, raising)
  \/ \E r \in Requests : respond(r)

SpecRestore == InitConcurrent /\ [][NextRestore]_vars

\* the quantity of product pid held by the line items of an order whose
\* restore did not fail
RestoredQuantity(order, pid, raising) ==
  SumSeq([i \in Idx(order.products) |->
            IF order.products[i].product_id = pid /\ i \notin raising
              THEN order.products[i].quantity ELSE 0])

\* C32: restoring stock on cancellation is best-effort and independent per
\* line item: when the restore of some line items fails, the cancellation
\* still reports success, the order is not rolled back, and every product's
\* stock grows by the quantities of the line items whose restore did not fail.
C32_RestoreIsBestEffort ==
  [][\A r \in Requests :
       (/\ inflight[r].op = "update_order_status"
        /\ inflight[r].pc = "side_effects"
        /\ inflight'[r].pc = "done"
        /\ inflight[r].args[2] = "cancelled")
         => /\ inflight'[r].result = Resp("update_order_status", TRUE, "cancelled", NoId)
            /\ orders' = orders
            /\ \A pid \in ProductIds :
                 stock'[pid] = stock[pid] + RestoredQuantity(inflight[r].locals.order, pid,
                                                             inflight'[r].locals.raising)]_vars

\* a cancellation has succeeded although the restore of the second of three
\* line items failed: the order is cancelled and the other two were restored
C32_Witness ==
  \E r \in Requests :
    /\ inflight[r].op = "update_order_status"
    /\ inflight[r].pc = "done"
    /\ inflight[r].result = Resp("update_order_status", TRUE, "cancelled", NoId)
    /\ inflight[r].locals.raising = {2}
    /\ orders[1].status = "cancelled"
    /\ stock = [p \in ProductIds |-> IF p = "p1" THEN InitialStock ELSE InitialStock - 1]

C34_CancelledOrderNamesCanceller ==
  \A i \in Idx(orders) :
    orders[i].status = "cancelled" => orders[i].cancelled_by \in {"customer", "merchant"}

\* C35: stock is conserved: between requests, each product's stock equals its
\* initial stock minus the quantities ordered of it by the orders that are not
\* cancelled.
C35_StockConserved ==
  resp = NoResp
    => \A pid \in ProductIds :
         stock[pid] = InitialStock
                        - SumSeq([i \in Idx(orders) |->
                                    IF orders[i].status = "cancelled" THEN 0
                                    ELSE OrderedQuantity(orders[i], pid)])

\* C36: an order's stock is restored at most once, also when cancellation
\* requests for it are served concurrently: no product's stock ever exceeds
\* its initial stock, and no order has more than one cancelled entry in its
\* status_history.
C36_RestoredAtMostOnce ==
  /\ \A pid \in ProductIds : stock[pid] <= InitialStock
  /\ \A i \in Idx(orders) :
       Cardinality({h \in Idx(orders[i].status_history) :
                      orders[i].status_history[h].status = "cancelled"}) <= 1

\* ---------------------------------------------- concurrent create_order
\* the order document POST /orders inserts
NewOrder(oid, user_id, items) ==
  [ _id |-> ObjectId(oid),
    user_id |-> user_id,
    merchant_id |-> ProductMerchant[items[1].product_id],
    products |-> items,
    total_amount |-> SumSeq([i \in Idx(items) |->
                               ProductPrice[items[i].product_id] * items[i].quantity]),
    status |-> "pending",
    payment_status |-> "unset",
    status_history |-> << [status |-> "pending", changed_by |-> "system"] >>,
    tracking_number |-> "none",
    shipped_at |-> FALSE,
    delivered_at |-> FALSE,
    cancelled_by |-> "none" ]

\* POST /orders: the loop over the line items, each product read with
\* db.products.find_one and its stock compared with the item's quantity
create_order_begin(r, user_id, items) ==
  /\ resp = NoResp
  /\ inflight[r].pc = "idle"
  /\ IF \E i \in Idx(items) : stock[items[i].product_id] < items[i].quantity
       THEN Returned(r, "create_order", FALSE, "insufficient_stock", NoId)
       ELSE Suspended(r, "create_order", "insert_one", <<user_id, items>>, << >>, NoId)
  /\ UNCHANGED << mode, paycap, call, now, stock, orders, payments, refunds, tasks, resp >>

\* result = await db.orders.insert_one(order_data)
create_order_insert_one(r) ==
  /\ resp = NoResp
  /\ inflight[r].op = "create_order"
  /\ inflight[r].pc = "insert_one"
  /\ Len(orders) < MaxRequests
  /\ orders' = Append(orders, NewOrder(Len(orders) + 1, inflight[r].args[1], inflight[r].args[2]))
  /\ inflight' = [inflight EXCEPT ![r].pc = "update_stock", ![r].doc = Len(orders) + 1]
  /\ UNCHANGED << mode, paycap, call, now, stock, payments, refunds, tasks, resp >>

\* the loop of db.products.update_one(..., {"$inc": {"stock": -item.quantity}})
create_order_update_stock(r) ==
  /\ resp = NoResp
  /\ inflight[r].op = "create_order"
  /\ inflight[r].pc = "update_stock"
  /\ stock' = IncStock(stock, inflight[r].args[2], 0 - 1)
  /\ Returned(r, "create_order", TRUE, "created", NoId)
  /\ UNCHANGED << mode, paycap, call, now, orders, payments, refunds, tasks, resp >>

NextCreate ==
  \/ \E r \in Requests, u \in OrderingBuyers, items \in OrderItemChoices :
       create_order_begin(r, u, items)
  \/ \E r \in Requests : create_order_insert_one(r)
  \/ \E r \in Requests : create_order_update_stock(r)
  \/ \E r \in Requests : respond(r)
  \/ \E o \in OrderIdInputs, u \in Users : cancel_order(o, u)
  \/ Reply

SpecCreate == InitConcurrent /\ [][NextCreate]_vars

\* C37: order creation checks and decrements the stock atomically: no
\* product's stock is ever negative, also when order-creation requests for the
\* same product are served concurrently.
C37_StockNeverNegative ==
  \A pid \in ProductIds : stock[pid] >= 0

\* C38: payment completion is synchronised to the order: between requests, a
\* Payment with status completed has an Order whose payment_status is
\* completed.
C38_CompletedPaymentSyncedToOrder ==
  resp = NoResp
    => \A i \in Idx(payments) :
         payments[i].status = "completed"
           => \E o \in Idx(orders) :
                /\ orders[o]._id = ObjectId(payments[i].order_id)
                /\ orders[o].payment_status = "completed"

\* ------------------------------- a status check beside the other writers
\* while one check_payment_status awaits the provider, the webhook, the
\* cancellation and the simulate requests of the same payment are served.
\* the one status check in flight
StatusCheckRequest == 1
\* the webhook results that end a payment
StaleWebhookStatuses == {"success", "failed", "cancelled"}

NextStale ==
  \/ Reply
  \/ \E u \in OrderingBuyers, items \in OrderItemChoices : create_order(u, items)
  \/ \E o \in OrderIdInputs, ph \in PhoneInputs, u \in Buyers :
       initiate_payment_route(o, ph, u, "ok")
  \/ \E p \in PaymentIdInputs, u \in PaymentCallers :
       check_payment_status_begin(StatusCheckRequest, p, u)
  \/ \E a \in {"completed", "pending", "failed", "cancelled", "api_error", "auth_error"} :
       check_payment_status_check_provider(StatusCheckRequest, a)
  \/ respond(StatusCheckRequest)
  \/ \E w \in WebhookSenders, ref \in TransactionRefInputs, st \in StaleWebhookStatuses :
       process_webhook(w[1], ref, st, w[2])
  \/ \E p \in PaymentIdInputs, u \in PaymentCallers : cancel_payment(p, u)
  \/ \E p \in PaymentIdInputs, b \in BOOLEAN : simulate_payment(p, b)

SpecStale == Init /\ [][NextStale]_vars

\* C39: a status check that read a Payment as pending or processing and
\* resumes after a webhook, cancel_payment or simulate operation moved that
\* Payment to a terminal status leaves that terminal status in place.
C39_NoStaleOverwrite ==
  [][\A r \in Requests :
       (/\ inflight[r].op = "check_payment_status"
        /\ inflight[r].pc = "check_provider"
        /\ inflight'[r].pc # "check_provider"
        /\ inflight[r].locals.payment.status \in {"pending", "processing"}
        /\ payments[PaymentAt(inflight[r].args[1])].status \in TerminalPaymentStatuses)
         => payments'[PaymentAt(inflight[r].args[1])].status
              = payments[PaymentAt(inflight[r].args[1])].status]_vars

\* C40: the delayed auto-complete and auto-fail tasks of the simulation
\* provider act only on a Payment that is still pending or processing when
\* the delay elapses: on any other Payment the task changes neither the
\* Payment nor the Order; and when auto-complete completes a payment, its
\* Order becomes confirmed with payment_status completed.
C40_DelayedTaskOnlyOnOpenPayment ==
  [][\A t \in tasks :
       (tasks' = tasks \ {t} /\ PaymentAt(t.payment_id) # 0)
         => LET k == PaymentAt(t.payment_id) IN
            IF payments[k].status \in {"pending", "processing"}
              THEN t.kind = "auto_complete"
                     => /\ payments'[k].status = "completed"
                        /\ \E o \in Idx(orders') :
                             /\ orders'[o]._id = ObjectId(payments[k].order_id)
                             /\ orders'[o].status = "confirmed"
                             /\ orders'[o].payment_status = "completed"
              ELSE payments' = payments /\ orders' = orders]_vars
====
